---- MODULE Spec2Model ----
(***************************************************************************)
(* Model of the plasticity-correction engine of MARS                       *)
(* (src/src/solver/plasticity_engine.py): the MaterialDB constructor, the  *)
(* temperature-blended curve operators, the Neuber and Glinka Newton       *)
(* solvers and the incremental Buczynski-Glinka tensor solver.             *)
(*                                                                         *)
(* The engine computes in numpy float64.  Numbers are modelled bit-exactly *)
(* as IEEE-754 binary64 values with round-to-nearest-even, built here on   *)
(* arbitrary-size naturals, so that every kernel is computed as the code   *)
(* computes it.                                                            *)
(***************************************************************************)
EXTENDS Integers, Sequences, FiniteSets, TLC

VARIABLES material, pc, call, pts, ibg, result, engine
vars == <<material, pc, call, pts, ibg, result, engine>>

(* ---------- local values: Let(e, LAMBDA v : body) is body with v = e ----------
   An operator argument is computed at most once, when it is first used: the
   guard computes e before the body is entered. *)
Let(e, Body(_)) == CASE e = e -> Body(e)

(* ---------- natural numbers of arbitrary size: little-endian limbs ----------
   The operations are written without recursion over the limbs: carries and
   borrows are found by look-ahead. *)
LimbBits == 14
LimbBase == 2^14
MantBits == 53

NLimb(a, i) == IF 1 <= i /\ i <= Len(a) THEN a[i] ELSE 0

\* a without its leading zero limbs
NNorm(a) == SubSeq(a, 1, Cardinality({i \in 1..Len(a) : \E j \in i..Len(a) : a[j] # 0}))

Longer(a, b) == IF Len(a) >= Len(b) THEN Len(a) ELSE Len(b)

\* a carry enters limb i of the limb sums s
Carry(s, i) ==
    \E j \in 1..(i - 1) : s[j] >= LimbBase /\ \A k \in (j + 1)..(i - 1) : s[k] = LimbBase - 1

\* the number of the n limb sums s, each below 2 * LimbBase
NCarried(s, n) ==
    NNorm(SubSeq([i \in 1..n |-> (s[i] + (IF Carry(s, i) THEN 1 ELSE 0)) % LimbBase], 1, n))

\* a carry enters limb i of a + b
AddCarry(a, b, i) ==
    \E j \in 1..(i - 1) :
        /\ NLimb(a, j) + NLimb(b, j) >= LimbBase
        /\ \A k \in (j + 1)..(i - 1) : NLimb(a, k) + NLimb(b, k) = LimbBase - 1

\* a + b of canonical a, b: the sum has one limb more when a carry leaves the last limb
NAdd(a, b) ==
    SubSeq([i \in 1..(Longer(a, b) + 1) |->
               (NLimb(a, i) + NLimb(b, i) + (IF AddCarry(a, b, i) THEN 1 ELSE 0)) % LimbBase],
           1, Longer(a, b) + (IF AddCarry(a, b, Longer(a, b) + 1) THEN 1 ELSE 0))

\* a borrow enters limb i of the limb differences d
Borrow(d, i) ==
    \E j \in 1..(i - 1) : d[j] < 0 /\ \A k \in (j + 1)..(i - 1) : d[k] = 0

NBorrowed(d, n) ==
    NNorm(SubSeq([i \in 1..n |->
            (d[i] - (IF Borrow(d, i) THEN 1 ELSE 0) + LimbBase) % LimbBase], 1, n))

\* a - b for a >= b
NSub(a, b) == NBorrowed(SubSeq([i \in 1..Len(a) |-> a[i] - NLimb(b, i)], 1, Len(a)), Len(a))

\* -1, 0, 1 as a < b, a = b, a > b (canonical operands)
NCmp(a, b) ==
    IF Len(a) < Len(b) THEN -1
    ELSE IF Len(a) > Len(b) THEN 1
    ELSE IF a = b THEN 0
    ELSE IF \E i \in 1..Len(a) : a[i] < b[i] /\ \A j \in (i + 1)..Len(a) : a[j] = b[j]
    THEN -1 ELSE 1

\* a * d for 0 <= d <= LimbBase: the low half of each limb product meets the high
\* half of the one before
MulSum(a, d, i) == ((NLimb(a, i) * d) % LimbBase) + ((NLimb(a, i - 1) * d) \div LimbBase)

\* a carry enters limb i of a * d
MulCarry(a, d, i) ==
    \E j \in 1..(i - 1) :
        /\ MulSum(a, d, j) >= LimbBase
        /\ \A k \in (j + 1)..(i - 1) : MulSum(a, d, k) = LimbBase - 1

NMulLimb(a, d) ==
    NNorm(SubSeq([i \in 1..(Len(a) + 1) |->
              (MulSum(a, d, i) + (IF MulCarry(a, d, i) THEN 1 ELSE 0)) % LimbBase],
          1, Len(a) + 1))

Zeros(q) == SubSeq([i \in 1..q |-> 0], 1, q)

\* the product of limb i of a and the limb of b that falls with it in column k
Term(a, b, i, k) ==
    IF i <= Len(a) /\ k + 1 - i >= 1 /\ k + 1 - i <= Len(b) THEN a[i] * b[k + 1 - i] ELSE 0

\* column k of a * b, a of at most 4 limbs (a 53-bit mantissa)
Column(a, b, k) == Term(a, b, 1, k) + Term(a, b, 2, k) + Term(a, b, 3, k) + Term(a, b, 4, k)

\* the two low digits of every column met, and the third digit of every column
NColumns(a, b, n) ==
    NNorm(NAdd(NCarried(SubSeq([k \in 1..n |->
                      (Column(a, b, k) % LimbBase)
                      + ((Column(a, b, k - 1) \div LimbBase) % LimbBase)], 1, n), n),
         <<0, 0>> \o SubSeq([k \in 1..n |-> Column(a, b, k) \div (LimbBase * LimbBase)], 1, n)))

NMul(a, b) == IF a = <<>> \/ b = <<>> THEN <<>> ELSE NColumns(a, b, Len(a) + Len(b))

\* a shifted left by r < LimbBits bits, p = 2^r
NShlBits(a, p) ==
    NNorm(SubSeq([i \in 1..(Len(a) + 1) |->
              ((NLimb(a, i) * p) % LimbBase) + ((NLimb(a, i - 1) * p) \div LimbBase)],
          1, Len(a) + 1))

NShl(a, k) ==
    IF a = <<>> THEN a
    ELSE Zeros(k \div LimbBits) \o NShlBits(a, 2^(k % LimbBits))

\* the limbs of a from limb q + 1 on, shifted right by r < LimbBits bits
NShrLimbs(a, q, p, n) ==
    NNorm(SubSeq([i \in 1..n |->
            (a[q + i] \div p) + (NLimb(a, q + i + 1) % p) * (LimbBase \div p)], 1, n))

NShr(a, k) ==
    IF Len(a) - k \div LimbBits <= 0 THEN <<>>
    ELSE NShrLimbs(a, k \div LimbBits, 2^(k % LimbBits), Len(a) - k \div LimbBits)

\* the number of bits of the limb x
LimbLen(x) == Cardinality({n \in 0..(LimbBits - 1) : 2^n <= x})

NBitLen(a) == IF a = <<>> THEN 0 ELSE LimbBits * (Len(a) - 1) + LimbLen(a[Len(a)])

NBit(a, k) == (NLimb(a, k \div LimbBits + 1) \div 2^(k % LimbBits)) % 2

\* some bit among the k lowest bits of a is set
NLowNonzero(a, k) ==
    \/ \E i \in 1..(k \div LimbBits) : NLimb(a, i) # 0
    \/ NLimb(a, k \div LimbBits + 1) % 2^(k % LimbBits) # 0

NOdd(a) == a # <<>> /\ a[1] % 2 = 1

\* 0 <= n < 2^31
NFromInt(n) == NNorm(<<n % LimbBase, (n \div LimbBase) % LimbBase, n \div (LimbBase * LimbBase)>>)

\* a < 2^31 as an integer
NToInt(a) == NLimb(a, 1) + LimbBase * NLimb(a, 2) + LimbBase * LimbBase * NLimb(a, 3)

\* the integer a \div 2^k, for a result below 2^31
NTopInt(a, k) == NToInt(NShr(a, k))

(* ---------- IEEE-754 binary64, round to nearest even ----------
   A finite nonzero value is <<s, e, m>>: (-1)^s * m * 2^e with
   2^52 <= m < 2^53 (m a limb sequence). Zero is FZero. A division by zero
   or an operation on its result gives NonFinite. The exponent is not
   bounded (no overflow to infinity, no subnormals). *)
FZero == <<0, 0, <<>>>>
\* the first component of NonFinite alone is 2, the last of FZero and NonFinite alone is empty
NonFinite == <<2, 0, <<>>>>
IsFinite(x) == x[1] # 2
IsZero(x) == x[1] # 2 /\ x[3] = <<>>

\* the rounded mantissa q1 may have reached 2^53
RoundUp(s, e, q1) ==
    IF NBitLen(q1) > MantBits THEN <<s, e + 1, NShr(q1, 1)>> ELSE <<s, e, q1>>

\* n of more than 53 bits: sh bits are dropped, q is n without them, rounded to even
RoundDown(s, n, e, sticky, sh, q) ==
    RoundUp(s, e + sh,
            IF NBit(n, sh - 1) = 1 /\ (sticky \/ NLowNonzero(n, sh - 1) \/ NOdd(q))
            THEN NAdd(q, <<1>>) ELSE q)

\* n of L bits
RoundLen(s, n, e, sticky, L) ==
    IF L = 0 THEN FZero
    ELSE IF L <= MantBits THEN <<s, e - (MantBits - L), NShl(n, MantBits - L)>>
    ELSE RoundDown(s, n, e, sticky, L - MantBits, NShr(n, L - MantBits))

\* nearest double to (-1)^s * n * 2^e (plus a nonzero tail below n when sticky)
Round(s, n, e, sticky) == RoundLen(s, n, e, sticky, NBitLen(n))

FInt(n) == Round(IF n < 0 THEN 1 ELSE 0, NFromInt(IF n < 0 THEN -n ELSE n), 0, FALSE)

FNeg(x) == IF x[3] = <<>> THEN x ELSE <<1 - x[1], x[2], x[3]>>
FAbs(x) == IF x[3] = <<>> THEN x ELSE <<0, x[2], x[3]>>

\* magnitude comparison of finite nonzero values
MagCmp(x, y) ==
    IF x[2] < y[2] THEN -1 ELSE IF x[2] > y[2] THEN 1 ELSE NCmp(x[3], y[3])

\* -1, 0, 1 for finite x, y
FCmp(x, y) ==
    IF IsZero(x) THEN (IF IsZero(y) THEN 0 ELSE IF y[1] = 0 THEN -1 ELSE 1)
    ELSE IF IsZero(y) THEN (IF x[1] = 0 THEN 1 ELSE -1)
    ELSE IF x[1] # y[1] THEN (IF x[1] = 0 THEN 1 ELSE -1)
    ELSE (IF x[1] = 0 THEN 1 ELSE -1) * MagCmp(x, y)

FLe(x, y) == x[1] # 2 /\ y[1] # 2 /\ FCmp(x, y) <= 0
FLt(x, y) == x[1] # 2 /\ y[1] # 2 /\ FCmp(x, y) < 0
FGe(x, y) == FLe(y, x)
FGt(x, y) == FLt(y, x)

\* a + b for the aligned magnitudes a of sign sa and b of sign sb (c compares them), at exponent e
AddCompared(sa, a, sb, b, e, c) ==
    Round(IF c >= 0 THEN sa ELSE sb,
          IF sa = sb THEN NAdd(a, b)
          ELSE NSub(IF c >= 0 THEN a ELSE b, IF c >= 0 THEN b ELSE a),
          e, FALSE)

AddAligned(sa, a, sb, b, e) == AddCompared(sa, a, sb, b, e, NCmp(a, b))

\* x + y for finite nonzero x, y with x[2] >= y[2]
AddOrdered(x, y) ==
    IF x[2] - y[2] > MantBits + 2 THEN x
    ELSE AddAligned(x[1], NShl(x[3], x[2] - y[2]), y[1], y[3], y[2])

FAdd(x, y) ==
    IF x[1] = 2 \/ y[1] = 2 THEN NonFinite
    ELSE IF IsZero(x) THEN y
    ELSE IF IsZero(y) THEN x
    ELSE AddOrdered(IF x[2] >= y[2] THEN x ELSE y, IF x[2] >= y[2] THEN y ELSE x)

FSub(x, y) == FAdd(x, FNeg(y))

FMul(x, y) ==
    IF x[1] = 2 \/ y[1] = 2 THEN NonFinite
    ELSE IF IsZero(x) \/ IsZero(y) THEN FZero
    ELSE Round((x[1] + y[1]) % 2, NMul(x[3], y[3]), x[2] + y[2], FALSE)

(* long division, one limb of the quotient at a time *)
DigitCount == 4
\* a 53-bit divisor without these low bits has 16 bits
EstimateShift == MantBits - 16

RECURSIVE FixUp(_, _, _)
\* raise an under-estimated digit q (r = n - d * q) until r < d
FixUp(d, q, r) ==
    IF NCmp(r, d) >= 0 THEN FixUp(d, q + 1, NSub(r, d)) ELSE <<q, r>>

RECURSIVE FixDown(_, _, _, _)
\* lower an over-estimated digit q (p = d * q) until p <= n
FixDown(n, d, q, p) ==
    IF NCmp(p, n) > 0 THEN FixDown(n, d, q - 1, NSub(p, d)) ELSE FixUp(d, q, NSub(n, p))

\* the digit of n \div d from the estimate qhat
DivDigitFrom(n, d, qhat) ==
    IF qhat = 0 THEN FixUp(d, 0, n) ELSE FixDown(n, d, qhat, NMulLimb(d, qhat))

\* one quotient digit: <<floor(r * LimbBase / d), remainder>> for r < d, 2^52 <= d < 2^53
DivDigit(r, d) ==
    DivDigitFrom(IF r = <<>> THEN r ELSE <<0>> \o r, d,
                 NTopInt(IF r = <<>> THEN r ELSE <<0>> \o r, EstimateShift)
                     \div NTopInt(d, EstimateShift))

\* long division: <<quotient, remainder>> after k more digits; qr is the next digit
RECURSIVE DivNext(_, _, _, _)
DivNext(q, qr, d, k) ==
    IF qr[2] = <<>> \/ k = 1 THEN <<NNorm(Zeros(k - 1) \o <<qr[1]>> \o q), qr[2]>>
    ELSE DivNext(<<qr[1]>> \o q, DivDigit(qr[2], d), d, k - 1)

DivDigits(q, r, d, k) == DivNext(q, DivDigit(r, d), d, k)

\* the quotient of x by y from <<quotient, remainder>> of the mantissas
DivRound(res, x, y) ==
    Round((x[1] + y[1]) % 2, res[1], x[2] - y[2] - DigitCount * LimbBits, res[2] # <<>>)

\* the quotient of x by y from its leading digit q and the remainder r after it
DivFrom(q, r, x, y) == DivRound(DivDigits(q, r, y[3], DigitCount), x, y)

FDiv(x, y) ==
    IF x[1] = 2 \/ y[1] = 2 \/ IsZero(y) THEN NonFinite
    ELSE IF IsZero(x) THEN FZero
    ELSE DivFrom(IF NCmp(x[3], y[3]) >= 0 THEN <<1>> ELSE <<>>,
                 IF NCmp(x[3], y[3]) >= 0 THEN NSub(x[3], y[3]) ELSE x[3], x, y)

(* square root, one limb of the root for every pair of limbs *)
HalfLimb == 2^7

\* floor of the square root of x < LimbBase^2, from its multiple of HalfLimb h
ISqrtLow(x, h) ==
    h + CHOOSE l \in 0..(HalfLimb - 1) : (h + l) * (h + l) <= x /\ x < (h + l + 1) * (h + l + 1)

ISqrt(x) ==
    ISqrtLow(x, HalfLimb * CHOOSE h \in 0..(HalfLimb - 1) :
                     (HalfLimb * h) * (HalfLimb * h) <= x
                     /\ x < (HalfLimb * (h + 1)) * (HalfLimb * (h + 1)))

\* t * (r2 * LimbBase + t), r2 twice the root so far
SqrtProduct(r2, t) == NMulLimb(<<t>> \o r2, t)

RECURSIVE SqrtFixUp(_, _, _)
\* raise the digit t while the next one still fits under cur
SqrtFixUp(cur, r2, t) ==
    IF t + 1 < LimbBase /\ NCmp(SqrtProduct(r2, t + 1), cur) <= 0
    THEN SqrtFixUp(cur, r2, t + 1)
    ELSE <<t, NSub(cur, SqrtProduct(r2, t))>>

RECURSIVE SqrtFixDown(_, _, _)
\* lower the digit t until it fits under cur
SqrtFixDown(cur, r2, t) ==
    IF NCmp(SqrtProduct(r2, t), cur) > 0 THEN SqrtFixDown(cur, r2, t - 1)
    ELSE SqrtFixUp(cur, r2, t)

\* the digit estimated from the leading bits tc of cur and tb of r2 * LimbBase
SqrtEstimate(tc, tb) ==
    IF tb = 0 \/ tc \div tb >= LimbBase THEN LimbBase - 1 ELSE tc \div tb

SqrtDigitAt(cur, r2, sh) ==
    SqrtFixDown(cur, r2, SqrtEstimate(NTopInt(cur, sh), NTopInt(<<0>> \o r2, sh)))

\* the next digit of the root: <<t, cur - t * (r2 * LimbBase + t)>>, t the largest that fits
SqrtDigit(cur, r2) ==
    IF NCmp(cur, <<0>> \o r2) < 0 THEN <<0, cur>>
    ELSE SqrtDigitAt(cur, r2, IF NBitLen(cur) > 30 THEN NBitLen(cur) - 30 ELSE 0)

\* <<root, rest>> of the k lowest limb pairs of n still to take in; tr is the last digit
RECURSIVE SqrtNext(_, _, _, _)
SqrtNext(root, tr, n, k) ==
    IF k = 0 THEN <<<<tr[1]>> \o root, tr[2]>>
    ELSE Let(SqrtDigit(NNorm(<<n[2 * k - 1], n[2 * k]>> \o tr[2]),
                       NMulLimb(<<tr[1]>> \o root, 2)),
             LAMBDA tr2 : SqrtNext(<<tr[1]>> \o root, tr2, n, k - 1))

\* the leading digit t of the root of n, of k limb pairs
SqrtFirst(n, k, t) ==
    SqrtNext(<<>>, <<t, NFromInt(NLimb(n, 2 * k - 1) + LimbBase * NLimb(n, 2 * k) - t * t)>>,
             n, k - 1)

\* <<floor of the square root of n, rest>> for n of k limb pairs, the leading pair not zero
NSqrt(n, k) == SqrtFirst(n, k, ISqrt(NLimb(n, 2 * k - 1) + LimbBase * NLimb(n, 2 * k)))

SqrtRound(sr, e) == Round(0, sr[1], (e \div 2) - 2 * LimbBits, sr[2] # <<>>)

\* the root of n * 2^e for even e
SqrtScaled(n, e) == SqrtRound(NSqrt(n, (Len(n) + 1) \div 2), e)

FSqrt(x) ==
    IF x[1] = 2 \/ (x[1] = 1 /\ ~IsZero(x)) THEN NonFinite
    ELSE IF IsZero(x) THEN FZero
    ELSE SqrtScaled(NShl(x[3], 4 * LimbBits + (x[2] % 2)), x[2] - (x[2] % 2))

FMax(x, y) == IF FGt(y, x) THEN y ELSE x
FMin(x, y) == IF FLt(y, x) THEN y ELSE x
\* decimal literal n / d, both exactly representable
FDec(n, d) == FDiv(FInt(n), FInt(d))

(* ---------- constants of the engine ---------- *)
F0 == FZero
F1 == FInt(1)
F2 == FInt(2)
F3 == FInt(3)
F4 == FInt(4)
Half == FDec(1, 2)
\* EPS = 1e-12
EPS == FDiv(F1, FMul(FInt(1000000), FInt(1000000)))
\* POISSON_RATIO = 0.30
POISSON_RATIO == FDec(3, 10)
\* VOIGT_WEIGHTS = [1, 1, 1, 2, 2, 2]
VOIGT_WEIGHTS == <<F1, F1, F1, F2, F2, F2>>
\* the literal 1e-6 of the finite-difference step and of the restart value
ONE_E6 == FDec(1, 1000000)
\* the literal 1e-9 flooring the IBG denominators
ONE_E9 == FDec(1, 1000000000)
\* default tol = 1e-10 of the Neuber and Glinka wrappers
DEFAULT_TOL == FDiv(F1, FMul(FInt(100000), FInt(100000)))

(* ---------- numpy arrays: ndim, shape, data (rows of a 2-D array) ---------- *)
Array1(d) == [ndim |-> 1, shape |-> <<Len(d)>>, data |-> d]
\* a 2-D array of r rows; c is given because an array of 0 rows keeps its width
Array2(rows, c) == [ndim |-> 2, shape |-> <<Len(rows), c>>, data |-> rows]
size(a) == IF a.ndim = 1 THEN a.shape[1] ELSE a.shape[1] * a.shape[2]

FloatSeq(s) == SubSeq([i \in 1..Len(s) |-> FInt(s[i])], 1, Len(s))
\* np.asarray(x, dtype=np.float64) of integer data
asarray1(s) == Array1(FloatSeq(s))
asarray2(rows, c) == Array2(SubSeq([i \in 1..Len(rows) |-> FloatSeq(rows[i])], 1, Len(rows)), c)

\* np.diff of a 1-D sequence
diff(d) == SubSeq([i \in 1..(Len(d) - 1) |-> FSub(d[i + 1], d[i])], 1, Len(d) - 1)
\* np.all(x > 0) of a 1-D sequence (True when it is empty)
all_positive(d) == \A i \in 1..Len(d) : FGt(d[i], F0)

\* not np.all(np.diff(TEMP) > 0) is what rejects
temp_strictly_increasing(TEMP) == all_positive(diff(TEMP.data))

rows_nondecreasing(SIG) ==
    \A r \in 1..Len(SIG.data) : \A i \in 1..Len(diff(SIG.data[r])) : FGe(diff(SIG.data[r])[i], F0)

\* np.all(np.diff(SIG, axis=1) > 0)
rows_strictly_increasing(SIG) ==
    \A r \in 1..Len(SIG.data) : all_positive(diff(SIG.data[r]))

NoDB == [TEMP |-> <<>>, E_tab |-> <<>>, SIG |-> <<>>, EPSP |-> <<>>, none |-> TRUE]
MaterialDB(TEMP, E, SIG, EPSP) ==
    [TEMP |-> TEMP.data, E_tab |-> E.data, SIG |-> SIG.data, EPSP |-> EPSP.data, none |-> FALSE]

Raised(kind, line) == [ok |-> FALSE, error |-> kind, line |-> line, db |-> NoDB]
Returned(db) == [ok |-> TRUE, error |-> "none", line |-> 0, db |-> db]

\* MaterialDB.from_arrays: the checks in the order of the code, each naming its line
from_arrays(TEMP, E, SIG, EPSP) ==
    IF TEMP.ndim # 1 \/ E.ndim # 1 THEN Raised("ValueError", 83)
    ELSE IF size(TEMP) # size(E) THEN Raised("ValueError", 85)
    ELSE IF SIG.shape # EPSP.shape THEN Raised("ValueError", 87)
    ELSE IF SIG.shape[1] # size(TEMP) THEN Raised("ValueError", 89)
    ELSE IF Len(SIG.shape) < 2 THEN Raised("IndexError", 90)
    ELSE IF SIG.shape[2] < 2 THEN Raised("ValueError", 91)
    ELSE IF ~temp_strictly_increasing(TEMP) THEN Raised("ValueError", 93)
    ELSE IF ~rows_strictly_increasing(SIG) THEN Raised("ValueError", 95)
    ELSE Returned(MaterialDB(TEMP, E, SIG, EPSP))

(* ---------- construction of a database from raw arrays ---------- *)
NoCall == [op |-> "none"]
NoResult == [ok |-> FALSE, error |-> "none", line |-> 0, db |-> NoDB]
NoIBG == [k |-> 0]
\* AnalysisEngine.__init__: no data, no solver, no plasticity configuration
NoConfig == [none |-> TRUE]
NoContext == [none |-> TRUE]
NoSolver == [none |-> TRUE]
NoEngine == [data |-> FALSE, solver |-> NoSolver, plasticity_config |-> NoConfig]

\* largest number of temperature entries of the enumerated raw arrays
MaxTemps == 2

Seqs(S, n) == UNION {[1..m -> S] : m \in 0..n}

\* raw temperature lists: increasing, equal and decreasing ones, and one 2-D array
RawTemps == {asarray1(s) : s \in Seqs({1, 2}, MaxTemps)} \cup {asarray2(<<(<<1, 2>>)>>, 2)}
RawModuli == {asarray1(s) : s \in Seqs({7}, MaxTemps)}
\* raw stress rows by width: too short, increasing, decreasing, constant
RowsOfWidth(c) ==
    CASE c = 0 -> {<<>>}
      [] c = 1 -> {<<1>>}
      [] c = 2 -> {<<1, 2>>, <<2, 1>>, <<2, 2>>}
      [] OTHER -> {<<1, 2, 3>>}
RawStress ==
    {asarray2(rows, c) : rows \in Seqs(RowsOfWidth(0), MaxTemps), c \in {0}}
    \cup UNION {{asarray2(rows, c) : rows \in Seqs(RowsOfWidth(c), MaxTemps)} : c \in 1..3}
    \cup {asarray1(<<>>), asarray1(<<1>>), asarray1(<<1, 2>>)}
ZeroRow(c) == SubSeq([i \in 1..c |-> F0], 1, c)
\* raw plastic-strain arrays for a stress array: its shape, one row more, or 1-D
RawStrainFor(SIG) ==
    IF SIG.ndim = 1
    THEN {Array1(ZeroRow(SIG.shape[1])), Array2(<<ZeroRow(2)>>, 2)}
    ELSE {Array2(SubSeq([i \in 1..SIG.shape[1] |-> ZeroRow(SIG.shape[2])], 1, SIG.shape[1]),
                 SIG.shape[2]),
          Array2(SubSeq([i \in 1..(SIG.shape[1] + 1) |-> ZeroRow(SIG.shape[2])], 1,
                        SIG.shape[1] + 1), SIG.shape[2]),
          Array1(ZeroRow(SIG.shape[1]))}

InitDB ==
    /\ material = NoDB
    /\ pc = "idle"
    /\ call = NoCall
    /\ pts = <<>>
    /\ ibg = NoIBG
    /\ result = NoResult
    /\ engine = NoEngine

\* the arguments of from_arrays and the database field each one becomes
ArgumentNames == {"temp", "e_tab", "sig", "epsp"}
FieldOf == [temp |-> "TEMP", e_tab |-> "E_tab", sig |-> "SIG", epsp |-> "EPSP"]
\* which arguments the caller passes as float64 ndarrays: np.asarray(x, dtype=np.float64)
\* returns such an argument itself, and makes a new array of any other (a list, an
\* integer array); enumerated: none of the four, or all four
PassedAsFloat64 == {{}, ArgumentNames}

\* MaterialDB.from_arrays(temp, e_tab, sig, epsp): a database or an exception
FromArrays(temp, e_tab, sig, epsp, float64) ==
    /\ pc = "idle"
    /\ result' = from_arrays(temp, e_tab, sig, epsp)
    /\ material' = result'.db
    /\ pc' = IF result'.ok THEN "constructed" ELSE "raised"
    /\ call' = [op |-> "from_arrays", temp |-> temp, e_tab |-> e_tab, sig |-> sig,
                epsp |-> epsp, float64 |-> float64]
    /\ UNCHANGED <<pts, ibg, engine>>

\* a[c] = v of a 1-D array, a[r, c] = v of a 2-D one
Written(a, r, c, v) ==
    [a EXCEPT !.data = IF a.ndim = 1 THEN [@ EXCEPT ![c] = v] ELSE [@ EXCEPT ![r][c] = v]]

\* the values the caller stores into an array it passed
StoredValues == {F0}

\* the caller of from_arrays stores v into one entry of an array it passed; the database
\* field made of a float64 ndarray is that same array (TEMP = np.asarray(temp, ...))
CallerWrites(name, r, c, v) ==
    /\ pc = "constructed"
    /\ r \in 1..(IF call[name].ndim = 1 THEN 1 ELSE call[name].shape[1])
    /\ c \in 1..call[name].shape[call[name].ndim]
    /\ call' = [call EXCEPT ![name] = Written(@, r, c, v)]
    /\ material' = IF name \in call.float64
                   THEN [material EXCEPT ![FieldOf[name]] = Written(call[name], r, c, v).data]
                   ELSE material
    /\ pc' = "written"
    /\ UNCHANGED <<pts, ibg, result, engine>>

NextDB ==
    \/ \E temp \in RawTemps, e_tab \in RawModuli, sig \in RawStress :
        \E epsp \in RawStrainFor(sig), float64 \in PassedAsFloat64 :
            FromArrays(temp, e_tab, sig, epsp, float64)
    \/ \E name \in ArgumentNames, r \in 1..MaxTemps, c \in 1..3, v \in StoredValues :
        CallerWrites(name, r, c, v)

SpecDB == InitDB /\ [][NextDB]_vars

(* ---------- C9, C10: what from_arrays rejects ---------- *)
\* from_arrays has returned or raised, and nothing happened since
Constructing == call.op = "from_arrays" /\ pc \in {"constructed", "raised"}
\* the conditions of the claim, stated on the raw arrays
LengthsDiffer == call.temp.ndim = 1 /\ size(call.temp) # size(call.e_tab)
ShapesDiffer == call.sig.shape # call.epsp.shape
RowCountDiffers == call.sig.shape[1] # size(call.temp)
FewerThanTwoPoints == call.sig.shape[2] < 2
TempsNotIncreasing ==
    /\ call.temp.ndim = 1
    /\ \E i \in 1..(size(call.temp) - 1) : ~FLt(call.temp.data[i], call.temp.data[i + 1])
SomeRowNotIncreasing ==
    \E r \in 1..call.sig.shape[1] : \E i \in 1..(call.sig.shape[2] - 1) :
        ~FLt(call.sig.data[r][i], call.sig.data[r][i + 1])
Invalid ==
    \/ LengthsDiffer
    \/ ShapesDiffer
    \/ RowCountDiffers
    \/ FewerThanTwoPoints
    \/ TempsNotIncreasing
    \/ SomeRowNotIncreasing

\* C9: from_arrays, given stress and plastic-strain matrices, raises a ValueError and
\* returns no database whenever the lengths of temperatures and moduli differ, the two
\* matrices differ in shape, their row count is not the number of temperatures, a curve
\* has fewer than 2 points, the temperatures are not strictly increasing or some
\* stress row is not strictly increasing; so a returned database has none of these.
C9_RejectsInvalid ==
    (Constructing /\ call.sig.ndim = 2)
        => /\ Invalid => (~result.ok /\ result.error = "ValueError" /\ material = NoDB)
           /\ result.ok =>
                /\ ~Invalid
                /\ material = MaterialDB(call.temp, call.e_tab, call.sig, call.epsp)

\* a stress row that is not strictly increasing, all else valid, has been rejected
C9_Witness ==
    /\ Constructing
    /\ call.sig.ndim = 2
    /\ SomeRowNotIncreasing
    /\ ~(LengthsDiffer \/ ShapesDiffer \/ RowCountDiffers \/ FewerThanTwoPoints
            \/ TempsNotIncreasing)
    /\ pc = "raised"
    /\ result.line = 95

\* C10: from_arrays never returns a database with zero temperature rows
C10_AtLeastOneTemperature ==
    (Constructing /\ pc = "constructed") => Len(material.TEMP) >= 1

(* ---------- temperature bracket and curve operators ---------- *)
\* a search that always answers 1
first_bracket(TEMP, T) == 1
\* np.searchsorted(TEMP, T): the number of entries below T (TEMP is sorted)
searchsorted(TEMP, T) == Cardinality({i \in 1..Len(TEMP) : FLt(TEMP[i], T)})

\* a bracket that extrapolates beyond the ends of the table instead of clamping
bound_T_extrapolating(T, TEMP) ==
    IF Len(TEMP) = 1 THEN <<1, 1, F0>>
    ELSE Let(IF searchsorted(TEMP, T) - 1 < 0 THEN 0
             ELSE IF searchsorted(TEMP, T) - 1 >= Len(TEMP) - 1 THEN Len(TEMP) - 2
             ELSE searchsorted(TEMP, T) - 1,
             LAMBDA i : <<i + 1, i + 2,
                          FDiv(FSub(T, TEMP[i + 1]), FSub(TEMP[i + 2], TEMP[i + 1]))>>)

\* _bound_T_indices_njit: <<i, j, w>>, the indices counted from 1
bound_T_indices_njit(T, TEMP) ==
    Let(searchsorted(TEMP, T) - 1,
        LAMBDA i : IF i < 0 THEN <<1, 1, F0>>
                   ELSE IF i >= Len(TEMP) - 1 THEN <<Len(TEMP), Len(TEMP), F0>>
                   ELSE <<i + 1, i + 2,
                          FDiv(FSub(T, TEMP[i + 1]), FSub(TEMP[i + 2], TEMP[i + 1]))>>)

\* (1.0 - w) * a + w * b
lerp(w, a, b) == FAdd(FMul(FSub(F1, w), a), FMul(w, b))

E_of_T_njit(T, TEMP, E_tab) ==
    Let(bound_T_indices_njit(T, TEMP), LAMBDA b : lerp(b[3], E_tab[b[1]], E_tab[b[2]]))

yield_of_T_njit(T, TEMP, SIG) ==
    Let(bound_T_indices_njit(T, TEMP), LAMBDA b : lerp(b[3], SIG[b[1]][1], SIG[b[2]][1]))

\* a step curve: the value of the segment's upper end
upper_end(x, s0, s1, e0, e1) == e1
\* e0 + (x - s0) * (e1 - e0) / (s1 - s0 + EPS)
on_segment(x, s0, s1, e0, e1) ==
    FAdd(e0, FDiv(FMul(FSub(x, s0), FSub(e1, e0)), FAdd(FSub(s1, s0), EPS)))

\* slope = (y[-1] - y[-2]) / (x[-1] - x[-2] + EPS)
last_slope(x_row, y_row, n) ==
    FDiv(FSub(y_row[n], y_row[n - 1]), FAdd(FSub(x_row[n], x_row[n - 1]), EPS))

\* the segment loop of _interp_epsp_on_curve_njit from segment k on
RECURSIVE interp_epsp_from(_, _, _, _, _)
interp_epsp_from(k, sig, sig_row, epsp_row, use_plateau) ==
    IF k <= Len(sig_row) - 1
    THEN IF FLe(sig_row[k], sig) /\ FLe(sig, sig_row[k + 1])
         THEN on_segment(sig, sig_row[k], sig_row[k + 1], epsp_row[k], epsp_row[k + 1])
         ELSE interp_epsp_from(k + 1, sig, sig_row, epsp_row, use_plateau)
    ELSE IF use_plateau = 1 THEN epsp_row[Len(sig_row)]
    ELSE FAdd(epsp_row[Len(sig_row)],
              FMul(FSub(sig, sig_row[Len(sig_row)]),
                   last_slope(sig_row, epsp_row, Len(sig_row))))

\* an interpolation that tests the policy before it looks for the segment
interp_epsp_policy_first(sig, sig_row, epsp_row, use_plateau) ==
    IF FLe(sig, sig_row[1]) THEN F0
    ELSE IF use_plateau = 1 THEN epsp_row[Len(sig_row)]
    ELSE interp_epsp_from(1, sig, sig_row, epsp_row, use_plateau)

interp_epsp_on_curve_njit(sig, sig_row, epsp_row, use_plateau) ==
    IF FLe(sig, sig_row[1]) THEN F0
    ELSE interp_epsp_from(1, sig, sig_row, epsp_row, use_plateau)

\* the segment loop of _invert_sigma_on_curve_njit from segment k on
RECURSIVE invert_sigma_from(_, _, _, _, _)
invert_sigma_from(k, epsp, sig_row, epsp_row, use_plateau) ==
    IF k <= Len(epsp_row) - 1
    THEN IF FLe(epsp_row[k], epsp) /\ FLe(epsp, epsp_row[k + 1])
         THEN FAdd(sig_row[k],
                   FMul(FDiv(FSub(epsp, epsp_row[k]),
                             FAdd(FSub(epsp_row[k + 1], epsp_row[k]), EPS)),
                        FSub(sig_row[k + 1], sig_row[k])))
         ELSE invert_sigma_from(k + 1, epsp, sig_row, epsp_row, use_plateau)
    ELSE IF use_plateau = 1 THEN sig_row[Len(epsp_row)]
    ELSE FAdd(sig_row[Len(epsp_row)],
              FMul(last_slope(epsp_row, sig_row, Len(epsp_row)),
                   FSub(epsp, epsp_row[Len(epsp_row)])))

invert_sigma_on_curve_njit(epsp, sig_row, epsp_row, use_plateau) ==
    IF FLe(epsp, epsp_row[1]) THEN sig_row[1]
    ELSE invert_sigma_from(1, epsp, sig_row, epsp_row, use_plateau)

\* 0.5 * (s0 + s1) * (e1 - e0)
trapezoid(s0, s1, e0, e1) == FMul(FMul(Half, FAdd(s0, s1)), FSub(e1, e0))

\* the segment loop of _plastic_energy_on_curve_njit from segment k on, area so far
RECURSIVE plastic_energy_from(_, _, _, _, _, _)
plastic_energy_from(k, area, sig, sig_row, epsp_row, use_plateau) ==
    IF k <= Len(sig_row) - 1
    THEN IF FLe(sig, sig_row[k + 1])
         THEN FAdd(area, trapezoid(sig_row[k], sig, epsp_row[k],
                       on_segment(sig, sig_row[k], sig_row[k + 1], epsp_row[k], epsp_row[k + 1])))
         ELSE Let(FAdd(area, trapezoid(sig_row[k], sig_row[k + 1], epsp_row[k], epsp_row[k + 1])),
                  LAMBDA a : plastic_energy_from(k + 1, a, sig, sig_row, epsp_row, use_plateau))
    ELSE IF use_plateau = 1 THEN area
    ELSE FAdd(area, trapezoid(sig_row[Len(sig_row)], sig, epsp_row[Len(sig_row)],
                  FAdd(epsp_row[Len(sig_row)],
                       FMul(last_slope(sig_row, epsp_row, Len(sig_row)),
                            FSub(sig, sig_row[Len(sig_row)])))))

plastic_energy_on_curve_njit(sig, sig_row, epsp_row, use_plateau) ==
    IF FLe(sig, sig_row[1]) THEN F0
    ELSE plastic_energy_from(1, F0, sig, sig_row, epsp_row, use_plateau)

\* the value on row i alone when i = j, else (1.0 - w) * left + w * right
blend(b, on_row) ==
    IF b[1] = b[2] THEN on_row[b[1]]
    ELSE Let(<<on_row[b[1]], on_row[b[2]]>>, LAMBDA v : lerp(b[3], v[1], v[2]))

epsp_of_T_sigma_njit(T, sig, TEMP, SIG, EPSP, use_plateau) ==
    Let(bound_T_indices_njit(T, TEMP),
        LAMBDA b : blend(b, [r \in {b[1], b[2]} |->
                                interp_epsp_on_curve_njit(sig, SIG[r], EPSP[r], use_plateau)]))

sigma_of_T_epsp_njit(T, epsp, TEMP, SIG, EPSP, use_plateau) ==
    Let(bound_T_indices_njit(T, TEMP),
        LAMBDA b : blend(b, [r \in {b[1], b[2]} |->
                                invert_sigma_on_curve_njit(epsp, SIG[r], EPSP[r], use_plateau)]))

Up_of_T_sigma_njit(T, sig, TEMP, SIG, EPSP, use_plateau) ==
    Let(bound_T_indices_njit(T, TEMP),
        LAMBDA b : blend(b, [r \in {b[1], b[2]} |->
                                plastic_energy_on_curve_njit(sig, SIG[r], EPSP[r], use_plateau)]))

(* ---------- Neuber and Glinka: one point of the prange loop ---------- *)
\* sigma_e_i <= 0.0: the point is written (0, 0) and skipped
fast_path_strict(sigma_e_i) == FLt(sigma_e_i, F0)
fast_path(sigma_e_i) == FLe(sigma_e_i, F0)

\* range(itmax) after `it` passes
loop_continues_once_more(it, itmax) == it <= itmax
loop_continues(it, itmax) == it < itmax

\* a division by zero raises ZeroDivisionError (numba's default error model)
Raises(x) == ~IsFinite(x)

\* sigma = min(sigma_e_i, yield); if sigma <= 0.0: sigma = 1e-6
initial_sigma(sigma_e_i, Ti, db) ==
    Let(FMin(sigma_e_i, yield_of_T_njit(Ti, db.TEMP, db.SIG)),
        LAMBDA s : IF FLe(s, F0) THEN ONE_E6 ELSE s)

\* r = sigma / E + eps - (sigma_e_i * sigma_e_i) / (sigma * E + EPS)
neuber_residual(sigma, sigma_e_i, E, eps) ==
    FSub(FAdd(FDiv(sigma, E), eps),
         FDiv(FMul(sigma_e_i, sigma_e_i), FAdd(FMul(sigma, E), EPS)))

\* dS = 1e-6 * max(abs(sigma), 1.0)
finite_difference_step(sigma) == FMul(ONE_E6, FMax(FAbs(sigma), F1))

\* an update that is taken whatever its sign
keep_update(sigma_next, sigma) == sigma_next
\* sigma = sigma_next if sigma_next > 0.0 else 0.5 * sigma
keep_positive(sigma_next, sigma) == IF FLe(sigma_next, F0) THEN FMul(Half, sigma) ELSE sigma_next

\* the update and the test of the Neuber loop (lines 402-410) from the residuals r at
\* sigma and r2 at sigma + dS: <<next sigma, break>>
newton_pass(sigma, r, r2, dS, tol) ==
    Let(FDiv(r, FAdd(FDiv(FSub(r2, r), dS), EPS)), LAMBDA step :
        <<keep_positive(FSub(sigma, step), sigma),
          FLt(FDiv(FAbs(step), FAdd(FAbs(sigma), EPS)), tol)>>)

\* one pass of the Neuber loop: <<next sigma, break>>
neuber_pass(sigma, sigma_e_i, Ti, db, tol, use_plateau) ==
    Let(E_of_T_njit(Ti, db.TEMP, db.E_tab), LAMBDA E :
    Let(neuber_residual(sigma, sigma_e_i, E,
            epsp_of_T_sigma_njit(Ti, sigma, db.TEMP, db.SIG, db.EPSP, use_plateau)), LAMBDA r :
    Let(finite_difference_step(sigma), LAMBDA dS :
    Let(FAdd(sigma, dS), LAMBDA sd :
    Let(neuber_residual(sd, sigma_e_i, E,
            epsp_of_T_sigma_njit(Ti, sd, db.TEMP, db.SIG, db.EPSP, use_plateau)), LAMBDA r2 :
        newton_pass(sigma, r, r2, dS, tol))))))

\* Uc = sigma * sigma / (2.0 * E + EPS) + Upl
glinka_energy(sigma, E, Upl) ==
    FAdd(FDiv(FMul(sigma, sigma), FAdd(FMul(F2, E), EPS)), Upl)

\* a Newton update whose finite-difference step does not grow with sigma
glinka_update_fixed_step(sigma, E, Uc, r, Ti, db, use_plateau) ==
    Let(glinka_energy(FAdd(sigma, ONE_E6), E,
            Up_of_T_sigma_njit(Ti, FAdd(sigma, ONE_E6), db.TEMP, db.SIG, db.EPSP, use_plateau)),
        LAMBDA Uc2 :
            keep_positive(FSub(sigma, FDiv(r, FAdd(FDiv(FSub(Uc2, Uc), ONE_E6), EPS))), sigma))

\* the Newton update of the Glinka loop from the residual r of energy Uc
glinka_update(sigma, E, Uc, r, Ti, db, use_plateau) ==
    Let(finite_difference_step(sigma), LAMBDA dS :
    Let(FAdd(sigma, dS), LAMBDA sd :
    Let(glinka_energy(sd, E,
            Up_of_T_sigma_njit(Ti, sd, db.TEMP, db.SIG, db.EPSP, use_plateau)), LAMBDA Uc2 :
        keep_positive(FSub(sigma, FDiv(r, FAdd(FDiv(FSub(Uc2, Uc), dS), EPS))), sigma))))

\* one pass of the Glinka loop: <<next sigma, break, updated>>
glinka_pass(sigma, E, Ue0, Ti, db, tol, use_plateau) ==
    Let(glinka_energy(sigma, E,
            Up_of_T_sigma_njit(Ti, sigma, db.TEMP, db.SIG, db.EPSP, use_plateau)), LAMBDA Uc :
    Let(FSub(Uc, Ue0), LAMBDA r :
        IF FLt(FDiv(FAbs(r), FAdd(FAbs(Ue0), EPS)), tol) THEN <<sigma, TRUE, FALSE>>
        ELSE Let(glinka_update(sigma, E, Uc, r, Ti, db, use_plateau), LAMBDA sigma_new :
                 <<sigma_new,
                   FLt(FDiv(FAbs(FSub(sigma_new, sigma)), FAdd(FAbs(sigma), EPS)), tol),
                   TRUE>>)))

(* ---------- apply_neuber_correction / apply_glinka_correction ---------- *)
\* a point of the prange loop before its body runs
\* (sc, ep: the entries of the output arrays, writes: how often they were stored)
NewPoint == [st |-> "start", sigma |-> F0, it |-> 0, upd |-> 0, E |-> F0, Ue0 |-> F0,
             sc |-> F0, ep |-> F0, writes |-> 0]

\* a loop that stores every result into the first entry of sc and ep
first_entry(i) == 1
\* the entry of sc and ep that work unit i stores into: sc[i], ep[i]
output_entry(i) == i

InScalarCall == pc \in {"neuber", "glinka"}
Plateau == IF call.use_plateau THEN 1 ELSE 0
Sigma_e(i) == call.sigma_equivalent.data[i]
Temp(i) == call.temperature.data[i]

\* the wrapper: the shape check, then the core starts its prange loop
ApplyCorrection(method, sigma_equivalent, temperature, tol, max_iterations, use_plateau) ==
    /\ pc = "ready"
    /\ call' = [op |-> method, sigma_equivalent |-> sigma_equivalent,
                temperature |-> temperature, tol |-> tol,
                max_iterations |-> max_iterations, use_plateau |-> use_plateau]
    /\ IF sigma_equivalent.shape # temperature.shape
       THEN /\ pc' = "raised"
            /\ result' = [ok |-> FALSE, error |-> "ValueError"]
            /\ pts' = pts
       ELSE /\ pc' = method
            /\ result' = result
            /\ pts' = SubSeq([i \in 1..size(sigma_equivalent) |-> NewPoint], 1,
                             size(sigma_equivalent))
    /\ UNCHANGED <<material, ibg, engine>>

\* what a read beyond the end of an array can lead to: the process dies, a zero modulus
\* read divides by zero, or the loop finishes on whatever values were read
OutOfBoundsOutcomes == {"crashed", "raised", "done"}
ArbitraryValues == {F0, F1}

\* the head of the loop body: the fast path, or the initial guess
PointStart(i) ==
    /\ InScalarCall
    /\ pts[i].st = "start"
    /\ IF fast_path(Sigma_e(i))
       THEN pts' = [pts EXCEPT ![i].st = "done", ![output_entry(i)].sc = F0,
                               ![output_entry(i)].ep = F0, ![output_entry(i)].writes = @ + 1]
       ELSE IF Len(material.TEMP) = 0
       \* SIG[0, 0] and E_tab[0] of empty arrays, without bounds checks: undefined
       THEN \E outcome \in OutOfBoundsOutcomes, sc \in ArbitraryValues, ep \in ArbitraryValues :
                pts' = [pts EXCEPT ![i].st = outcome,
                                   ![output_entry(i)].sc = IF outcome = "done" THEN sc ELSE @,
                                   ![output_entry(i)].ep = IF outcome = "done" THEN ep ELSE @,
                                   ![output_entry(i)].writes =
                                        IF outcome = "done" THEN @ + 1 ELSE @]
       ELSE pts' = Let(E_of_T_njit(Temp(i), material.TEMP, material.E_tab), LAMBDA E :
                       [pts EXCEPT
                           ![i].st = "loop",
                           ![i].sigma = initial_sigma(Sigma_e(i), Temp(i), material),
                           ![i].E = IF pc = "glinka" THEN E ELSE F0,
                           ![i].Ue0 = IF pc = "glinka"
                                      THEN FDiv(FMul(Sigma_e(i), Sigma_e(i)),
                                                FAdd(FMul(F2, E), EPS))
                                      ELSE F0])
    /\ UNCHANGED <<material, pc, call, ibg, result, engine>>

\* one pass of the Neuber for-loop of point i
NeuberPass(i) ==
    /\ pc = "neuber"
    /\ pts[i].st = "loop"
    /\ loop_continues(pts[i].it, call.max_iterations)
    /\ pts' = Let(neuber_pass(pts[i].sigma, Sigma_e(i), Temp(i), material, call.tol, Plateau),
                  LAMBDA p : [pts EXCEPT
                      ![i].sigma = p[1],
                      ![i].it = @ + 1,
                      ![i].upd = @ + 1,
                      ![i].st = IF Raises(p[1]) THEN "raised"
                                ELSE IF p[2] THEN "exit" ELSE "loop"])
    /\ UNCHANGED <<material, pc, call, ibg, result, engine>>

\* one pass of the Glinka for-loop of point i
GlinkaPass(i) ==
    /\ pc = "glinka"
    /\ pts[i].st = "loop"
    /\ loop_continues(pts[i].it, call.max_iterations)
    /\ pts' = Let(glinka_pass(pts[i].sigma, pts[i].E, pts[i].Ue0, Temp(i), material,
                              call.tol, Plateau),
                  LAMBDA p : [pts EXCEPT
                      ![i].sigma = p[1],
                      ![i].it = @ + 1,
                      ![i].upd = IF p[3] THEN @ + 1 ELSE @,
                      ![i].st = IF Raises(p[1]) THEN "raised"
                                ELSE IF p[2] THEN "exit" ELSE "loop"])
    /\ UNCHANGED <<material, pc, call, ibg, result, engine>>

\* after the loop: sc[i] = sigma, ep[i] = epsp_of_T_sigma_njit(Ti, sigma, ...)
PointFinish(i) ==
    /\ InScalarCall
    /\ \/ pts[i].st = "exit"
       \/ pts[i].st = "loop" /\ ~loop_continues(pts[i].it, call.max_iterations)
    /\ pts' = [pts EXCEPT
           ![i].st = "done",
           ![output_entry(i)].sc = pts[i].sigma,
           ![output_entry(i)].ep = epsp_of_T_sigma_njit(Temp(i), pts[i].sigma, material.TEMP,
                                                        material.SIG, material.EPSP, Plateau),
           ![output_entry(i)].writes = @ + 1]
    /\ UNCHANGED <<material, pc, call, ibg, result, engine>>

\* return sc, ep once every point is written; an exception of a point leaves the call
ReturnCorrection ==
    /\ InScalarCall
    /\ \A i \in 1..Len(pts) : pts[i].st \in {"done", "raised", "crashed"}
    /\ IF \E i \in 1..Len(pts) : pts[i].st = "crashed"
       THEN /\ pc' = "crashed"
            /\ result' = [ok |-> FALSE, error |-> "crash"]
       ELSE IF \E i \in 1..Len(pts) : pts[i].st = "raised"
       THEN /\ pc' = "raised"
            /\ result' = [ok |-> FALSE, error |-> "ZeroDivisionError"]
       ELSE /\ pc' = "done"
            /\ result' = [ok |-> TRUE, error |-> "none",
                          sc |-> SubSeq([i \in 1..Len(pts) |-> pts[i].sc], 1, Len(pts)),
                          ep |-> SubSeq([i \in 1..Len(pts) |-> pts[i].ep], 1, Len(pts))]
    /\ UNCHANGED <<material, call, pts, ibg, engine>>

(* ---------- databases and calls of the scalar solvers ---------- *)
\* default_material_db()
default_material_db ==
    from_arrays(Array1(<<FInt(22)>>), Array1(<<FInt(70000)>>),
                Array2(<<(<<FInt(400), FDec(10043, 10)>>)>>, 2),
                Array2(<<(<<F0, FDec(3007, 10000)>>)>>, 2)).db

\* two temperatures, three curve points; the row yields are 350 and 320
TwoTempDB ==
    from_arrays(asarray1(<<20, 60>>), asarray1(<<70000, 68500>>),
                asarray2(<<(<<350, 420, 480>>), (<<320, 390, 450>>)>>, 3),
                Array2(<<(<<F0, FDec(1, 100), FDec(5, 100)>>),
                         (<<F0, FDec(1, 100), FDec(5, 100)>>)>>, 3)).db

\* one temperature, a nearly flat second segment
SteepDB ==
    from_arrays(asarray1(<<22>>), asarray1(<<70000>>),
                asarray2(<<(<<400, 500, 600>>)>>, 3),
                Array2(<<(<<F0, FDec(1, 10000), FDec(1, 10)>>)>>, 3)).db

\* one temperature, one short segment: stresses far beyond it under the plateau policy
PlateauDB ==
    from_arrays(asarray1(<<22>>), asarray1(<<70000>>), asarray2(<<(<<400, 500>>)>>, 2),
                Array2(<<(<<F0, FDec(1, 100)>>)>>, 2)).db

\* accepted by from_arrays: a curve that starts at stress 0, one that starts below 0
ZeroYieldDB ==
    from_arrays(asarray1(<<22>>), asarray1(<<70000>>), asarray2(<<(<<0, 200>>)>>, 2),
                Array2(<<(<<F0, FDec(1, 10)>>)>>, 2)).db
NegativeYieldDB ==
    from_arrays(asarray1(<<22>>), asarray1(<<70000>>), asarray2(<<(<<-100, 200>>)>>, 2),
                Array2(<<(<<F0, FDec(1, 10)>>)>>, 2)).db

ScalarDBs == {default_material_db, TwoTempDB, SteepDB, PlateauDB, NegativeYieldDB}

\* max_iterations: int = 60
DEFAULT_MAX_ITERATIONS == 60

Args(se, T, tol, itmax, up) ==
    [sigma_equivalent |-> asarray1(se), temperature |-> asarray1(T), tol |-> tol,
     max_iterations |-> itmax, use_plateau |-> up]

\* a call at a stress of 2^-30, far below any stress of the curve
TinyStressArgs ==
    [sigma_equivalent |-> Array1(<<FDiv(F1, FInt(2^30))>>), temperature |-> asarray1(<<22>>),
     tol |-> DEFAULT_TOL, max_iterations |-> DEFAULT_MAX_ITERATIONS, use_plateau |-> FALSE]

\* a call at a stress of 0.001 on a curve whose yield is negative, six passes
FloorArgs ==
    [sigma_equivalent |-> Array1(<<FDec(1, 1000)>>), temperature |-> asarray1(<<22>>),
     tol |-> DEFAULT_TOL, max_iterations |-> 6, use_plateau |-> FALSE]

\* the calls made on a database: stresses below, at and above yield, non-positive
\* stresses, temperatures inside and outside the table, both policies
ScalarArgs(db) ==
    IF db = default_material_db THEN
        {Args(<<se>>, <<22>>, DEFAULT_TOL, DEFAULT_MAX_ITERATIONS, FALSE) :
            se \in {-5, 0, 300, 400}}
        \cup {Args(<<500>>, <<22>>, DEFAULT_TOL, itmax, up) :
                itmax \in {0, 1, 2, DEFAULT_MAX_ITERATIONS}, up \in BOOLEAN}
        \cup {Args(<<500>>, <<22>>, ONE_E6, DEFAULT_MAX_ITERATIONS, FALSE),
              Args(<<300>>, <<100>>, DEFAULT_TOL, DEFAULT_MAX_ITERATIONS, FALSE),
              Args(<<1, 400>>, <<10, 100>>, DEFAULT_TOL, DEFAULT_MAX_ITERATIONS, FALSE),
              TinyStressArgs,
              Args(<<-5, 500>>, <<22, 22>>, DEFAULT_TOL, DEFAULT_MAX_ITERATIONS, FALSE),
              Args(<<450, 500>>, <<22, 100>>, DEFAULT_TOL, DEFAULT_MAX_ITERATIONS, FALSE),
              Args(<<300, 500>>, <<22>>, DEFAULT_TOL, DEFAULT_MAX_ITERATIONS, FALSE)}
    ELSE IF db = TwoTempDB THEN
        {Args(<<se>>, <<40>>, DEFAULT_TOL, DEFAULT_MAX_ITERATIONS, FALSE) :
            se \in {300, 330, 500}}
    ELSE IF db = SteepDB THEN
        {Args(<<600>>, <<22>>, DEFAULT_TOL, DEFAULT_MAX_ITERATIONS, up) : up \in BOOLEAN}
    ELSE IF db = NegativeYieldDB THEN {FloorArgs}
    ELSE
        {Args(<<1000>>, <<22>>, tol, DEFAULT_MAX_ITERATIONS, TRUE) :
            tol \in {DEFAULT_TOL, FDec(4, 100000)}}

InitScalar ==
    /\ material \in ScalarDBs
    /\ pc = "ready"
    /\ call = NoCall
    /\ pts = <<>>
    /\ ibg = NoIBG
    /\ result = NoResult
    /\ engine = NoEngine

NextScalar ==
    \/ \E method \in {"neuber", "glinka"}, a \in ScalarArgs(material) :
          ApplyCorrection(method, a.sigma_equivalent, a.temperature, a.tol,
                          a.max_iterations, a.use_plateau)
    \/ \E i \in 1..Len(pts) : PointStart(i)
    \/ \E i \in 1..Len(pts) : NeuberPass(i)
    \/ \E i \in 1..Len(pts) : GlinkaPass(i)
    \/ \E i \in 1..Len(pts) : PointFinish(i)
    \/ ReturnCorrection

SpecScalar == InitScalar /\ [][NextScalar]_vars

(* ---------- tensor helpers (Voigt order: xx, yy, zz, xy, yz, zx) ---------- *)
sq(x) == FMul(x, x)

von_mises_from_voigt(sig6) ==
    FSqrt(FAdd(FMul(Half, FAdd(FAdd(sq(FSub(sig6[1], sig6[2])), sq(FSub(sig6[2], sig6[3]))),
                               sq(FSub(sig6[3], sig6[1])))),
               FMul(F3, FAdd(FAdd(sq(sig6[4]), sq(sig6[5])), sq(sig6[6])))))

\* m = (sig6[0] + sig6[1] + sig6[2]) / 3.0
mean_stress(sig6) == FDiv(FAdd(FAdd(sig6[1], sig6[2]), sig6[3]), F3)

\* hyd = [m, m, m, 0.0, 0.0, 0.0]
hydrostatic(m) == <<m, m, m, F0, F0, F0>>

deviator(sig6) ==
    Let(mean_stress(sig6),
        LAMBDA m : SubSeq([j \in 1..6 |-> IF j <= 3 THEN FSub(sig6[j], m) ELSE sig6[j]], 1, 6))

shear_modulus(E, nu) == FDiv(E, FMul(F2, FAdd(F1, nu)))

\* num += VOIGT_WEIGHTS[j] * (dp[j] + dn[j]) * (dn[j] - dp[j]) from component j on
RECURSIVE weighted_sum(_, _, _, _)
weighted_sum(j, num, dp, dn) ==
    IF j > 6 THEN num
    ELSE Let(FAdd(num, FMul(FMul(VOIGT_WEIGHTS[j], FAdd(dp[j], dn[j])), FSub(dn[j], dp[j]))),
             LAMBDA num2 : weighted_sum(j + 1, num2, dp, dn))

delta_Ue_tensor(sig_prev, sig_now, E, nu) ==
    Let(<<deviator(sig_prev), deviator(sig_now)>>,
        LAMBDA d : FDiv(weighted_sum(1, F0, d[1], d[2]),
                        FAdd(FMul(F4, shear_modulus(E, nu)), EPS)))

(* ---------- the incremental Buczynski-Glinka solver ---------- *)
\* the midpoint loop of _delta_epsp_curve_aware_core with n passes left
RECURSIVE midpoint_closure(_, _, _, _, _, _, _)
midpoint_closure(n, dep, dUe, T, epsp_prev, db, use_plateau) ==
    IF n = 0 THEN dep
    ELSE Let(sigma_of_T_epsp_njit(T, FAdd(epsp_prev, FMul(Half, dep)),
                                  db.TEMP, db.SIG, db.EPSP, use_plateau),
             LAMBDA s_mid :
                 IF FLe(s_mid, F0) THEN dep
                 ELSE Let(FDiv(dUe, FAdd(s_mid, EPS)),
                          LAMBDA dep2 : midpoint_closure(n - 1, dep2, dUe, T, epsp_prev, db,
                                                         use_plateau)))

delta_epsp_curve_aware_core(dUe, T, epsp_prev, db, use_plateau) ==
    IF FLe(dUe, F0) THEN F0
    ELSE Let(FDiv(dUe, FMax(yield_of_T_njit(T, db.TEMP, db.SIG), ONE_E9)),
             LAMBDA dep : FMax(midpoint_closure(3, dep, dUe, T, epsp_prev, db, use_plateau), F0))

\* a factor that grows with the plastic-strain increment: 1.0 + Ek * dep / denom
scale_pass_growing(scale, vm_k, flow, Ek, dep) ==
    FAdd(F1, FDiv(FMul(Ek, dep), FMax(FMax(FMul(scale, vm_k), flow), ONE_E9)))
\* scale = 1.0 / (1.0 + Ek * dep / max(scale * vm_el[k], flow, 1e-9))
scale_pass(scale, vm_k, flow, Ek, dep) ==
    FDiv(F1, FAdd(F1, FDiv(FMul(Ek, dep), FMax(FMax(FMul(scale, vm_k), flow), ONE_E9))))

\* the two passes of the scale iteration, from scale = 1.0
coupled_scale(vm_k, flow, Ek, dep) ==
    Let(scale_pass(F1, vm_k, flow, Ek, dep), LAMBDA scale : scale_pass(scale, vm_k, flow, Ek, dep))

\* hyd + scale * (sig6 - hyd)
scale_whole_tensor(sig6, scale) == SubSeq([j \in 1..6 |-> FMul(scale, sig6[j])], 1, 6)
radial_scaling(sig6, scale) ==
    Let(hydrostatic(mean_stress(sig6)),
        LAMBDA hyd : SubSeq([j \in 1..6 |->
                        FAdd(hyd[j], FMul(scale, FSub(sig6[j], hyd[j])))], 1, 6))

\* max(vm_el[k - 1], vm_el[k]) <= yield and eps_prev <= 0.0
elastic_step_strict(vm_prev, vm_now, sig_y, eps_prev) ==
    FLt(FMax(vm_prev, vm_now), sig_y) /\ FLe(eps_prev, F0)
\* a loop body without the elastic shortcut
elastic_step_never(vm_prev, vm_now, sig_y, eps_prev) == FALSE
elastic_step(vm_prev, vm_now, sig_y, eps_prev) ==
    FLe(FMax(vm_prev, vm_now), sig_y) /\ FLe(eps_prev, F0)

\* a corrected branch whose increment dUe / yield follows the sign of dUe
corrected_step_signed(sig_now, dUe, vm_k, Tk, Ek, eps_prev, db, use_plateau) ==
    Let(FDiv(dUe, FMax(yield_of_T_njit(Tk, db.TEMP, db.SIG), ONE_E9)), LAMBDA dep :
        [sig |-> sig_now, eps_prev |-> FAdd(eps_prev, dep), corrected |-> TRUE, scale |-> F1])

\* a corrected branch whose increment comes from the magnitude of dUe
corrected_step_magnitude(sig_now, dUe, vm_k, Tk, Ek, eps_prev, db, use_plateau) ==
    Let(delta_epsp_curve_aware_core(FAbs(dUe), Tk, eps_prev, db, use_plateau), LAMBDA dep :
        [sig |-> sig_now, eps_prev |-> FAdd(eps_prev, dep), corrected |-> TRUE, scale |-> F1])

\* the corrected branch of the loop body, from the modulus Ek on
corrected_step(sig_now, dUe, vm_k, Tk, Ek, eps_prev, db, use_plateau) ==
    Let(delta_epsp_curve_aware_core(FMax(dUe, F0), Tk, eps_prev, db, use_plateau), LAMBDA dep :
    Let(coupled_scale(vm_k, sigma_of_T_epsp_njit(Tk, eps_prev, db.TEMP, db.SIG, db.EPSP,
                                                 use_plateau), Ek, dep), LAMBDA scale :
        [sig |-> radial_scaling(sig_now, scale), eps_prev |-> FAdd(eps_prev, dep),
         corrected |-> TRUE, scale |-> scale]))

\* a loop body whose elastic test looks at the last step of the history instead of
\* step k
ibg_step_lookahead(k, sig_hist, Tk, vm_el, eps_prev, db, use_plateau) ==
    IF elastic_step(vm_el[k - 1], vm_el[Len(vm_el)], yield_of_T_njit(Tk, db.TEMP, db.SIG),
                    eps_prev)
    THEN [sig |-> sig_hist[k], eps_prev |-> eps_prev, corrected |-> FALSE, scale |-> F1]
    ELSE Let(E_of_T_njit(Tk, db.TEMP, db.E_tab), LAMBDA Ek :
             corrected_step(sig_hist[k],
                            delta_Ue_tensor(sig_hist[k - 1], sig_hist[k], Ek, POISSON_RATIO),
                            vm_el[k], Tk, Ek, eps_prev, db, use_plateau))

\* the loop body for step k (counted from 1; k >= 2): the step's tensor and strain
ibg_step(k, sig_hist, Tk, vm_el, eps_prev, db, use_plateau) ==
    IF elastic_step(vm_el[k - 1], vm_el[k], yield_of_T_njit(Tk, db.TEMP, db.SIG), eps_prev)
    THEN [sig |-> sig_hist[k], eps_prev |-> eps_prev, corrected |-> FALSE, scale |-> F1]
    ELSE Let(E_of_T_njit(Tk, db.TEMP, db.E_tab), LAMBDA Ek :
             corrected_step(sig_hist[k],
                            delta_Ue_tensor(sig_hist[k - 1], sig_hist[k], Ek, POISSON_RATIO),
                            vm_el[k], Tk, Ek, eps_prev, db, use_plateau))

\* a core that keeps the accumulated plastic strain of the call before
first_step_carrying(sig_hist) ==
    [sig_corr |-> <<sig_hist[1]>>, epsp |-> <<F0>>,
     eps_prev |-> IF ibg.k = 0 THEN F0 ELSE ibg.eps_prev]
\* sig_corr[0] = sig_hist[0]; epsp[0] = 0.0; eps_prev = 0.0
first_step_zeroed(sig_hist) ==
    [sig_corr |-> <<hydrostatic(F0)>>, epsp |-> <<F0>>, eps_prev |-> F0]
first_step(sig_hist) == [sig_corr |-> <<sig_hist[1]>>, epsp |-> <<F0>>, eps_prev |-> F0]

\* `for k in range(1, N)` from step k on, given the arrays filled so far
RECURSIVE ibg_loop_from(_, _, _, _, _, _, _)
ibg_loop_from(k, filled, sig_hist, T_hist, vm_el, db, use_plateau) ==
    IF k > Len(sig_hist) THEN filled
    ELSE Let(ibg_step(k, sig_hist, T_hist[k], vm_el, filled.eps_prev, db, use_plateau),
             LAMBDA s : ibg_loop_from(k + 1, [sig_corr |-> Append(filled.sig_corr, s.sig),
                                              epsp |-> Append(filled.epsp, s.eps_prev),
                                              eps_prev |-> s.eps_prev],
                                      sig_hist, T_hist, vm_el, db, use_plateau))

\* ibg_solver_tensor_core on a history of at least one step: sig_corr and epsp
ibg_solver_tensor_core(sig_hist, T_hist, db, use_plateau) ==
    Let(SubSeq([k \in 1..Len(sig_hist) |-> von_mises_from_voigt(sig_hist[k])], 1,
               Len(sig_hist)),
        LAMBDA vm_el : ibg_loop_from(2, first_step(sig_hist), sig_hist, T_hist, vm_el, db,
                                     use_plateau))

InIBGCall == pc = "ibg"
Steps == call.stress_history.shape[1]

\* a wrapper that checks the stress history only
stress_shape_error(stress_history, temperature_history) ==
    stress_history.ndim # 2 \/ stress_history.shape[2] # 6
\* the two checks of apply_ibg_correction that raise ValueError
ibg_shape_error(stress_history, temperature_history) ==
    \/ stress_history.ndim # 2 \/ stress_history.shape[2] # 6
    \/ temperature_history.shape[1] # stress_history.shape[1]

\* the wrapper's shape checks, then the core up to its loop
ApplyIBG(stress_history, temperature_history, use_plateau) ==
    /\ pc = "ready"
    /\ call' = [op |-> "ibg", stress_history |-> stress_history,
                temperature_history |-> temperature_history, use_plateau |-> use_plateau]
    /\ IF ibg_shape_error(stress_history, temperature_history)
       THEN /\ pc' = "raised"
            /\ result' = [ok |-> FALSE, error |-> "ValueError"]
            /\ ibg' = ibg
       ELSE IF stress_history.shape[1] = 0
       \* index 0 of empty arrays, without bounds checks: the access is undefined
       THEN /\ ibg' = ibg
            /\ \/ pc' = "done" /\ result' = [ok |-> TRUE, error |-> "none",
                                             sig_corr |-> <<>>, epsp |-> <<>>]
               \/ pc' = "crashed" /\ result' = [ok |-> FALSE, error |-> "crash"]
       ELSE /\ pc' = "ibg"
            /\ result' = result
            /\ ibg' = Let(first_step(stress_history.data), LAMBDA s :
                          [k |-> 2,
                           vm_el |-> SubSeq([k \in 1..stress_history.shape[1] |->
                                        von_mises_from_voigt(stress_history.data[k])], 1,
                                        stress_history.shape[1]),
                           sig_corr |-> s.sig_corr, epsp |-> s.epsp, eps_prev |-> s.eps_prev,
                           corrected |-> <<FALSE>>, scale |-> <<F1>>])
    /\ UNCHANGED <<material, pts, engine>>

\* one iteration of `for k in range(1, N)`
IBGStep ==
    /\ InIBGCall
    /\ ibg.k <= Steps
    /\ Len(material.TEMP) > 0
    /\ ibg' = Let(ibg_step(ibg.k, call.stress_history.data, call.temperature_history.data[ibg.k],
                           ibg.vm_el, ibg.eps_prev, material, Plateau), LAMBDA s :
                  [ibg EXCEPT !.k = @ + 1,
                              !.sig_corr = Append(@, s.sig),
                              !.epsp = Append(@, s.eps_prev),
                              !.eps_prev = s.eps_prev,
                              !.corrected = Append(@, s.corrected),
                              !.scale = Append(@, s.scale)])
    /\ UNCHANGED <<material, pc, call, pts, result, engine>>

\* an iteration of the loop on a database without temperature rows: E_tab[0] and
\* SIG[0, 0] are read beyond the end of the arrays, without bounds checks: undefined
IBGStepOutOfBounds ==
    /\ InIBGCall
    /\ ibg.k <= Steps
    /\ Len(material.TEMP) = 0
    /\ \/ /\ pc' = "crashed"
          /\ result' = [ok |-> FALSE, error |-> "crash"]
          /\ ibg' = ibg
       \/ /\ pc' = "raised"
          /\ result' = [ok |-> FALSE, error |-> "ZeroDivisionError"]
          /\ ibg' = ibg
       \/ /\ pc' = pc
          /\ result' = result
          /\ \E v \in ArbitraryValues :
                ibg' = [ibg EXCEPT !.k = @ + 1,
                                   !.sig_corr = Append(@, call.stress_history.data[ibg.k]),
                                   !.epsp = Append(@, v),
                                   !.eps_prev = v,
                                   !.corrected = Append(@, FALSE),
                                   !.scale = Append(@, F1)]
    /\ UNCHANGED <<material, call, pts, engine>>

\* return sig_corr, epsp
IBGReturn ==
    /\ InIBGCall
    /\ ibg.k > Steps
    /\ pc' = "done"
    /\ result' = [ok |-> TRUE, error |-> "none", sig_corr |-> ibg.sig_corr, epsp |-> ibg.epsp]
    /\ UNCHANGED <<material, call, pts, ibg, engine>>

(* ---------- histories passed to apply_ibg_correction ---------- *)
\* largest number of steps of the enumerated histories
MaxSteps == 3

\* uniaxial below yield (von Mises 100), general above yield, uniaxial at the 400 yield
BelowYield == <<100, 0, 0, 0, 0, 0>>
AboveYield == <<600, 100, -50, 30, 0, 20>>
AtYield == <<400, 0, 0, 0, 0, 0>>

Histories(tensors) == {asarray2(h, 6) : h \in Seqs(tensors, MaxSteps)}
Constant(n, T) == asarray1([k \in 1..n |-> T])
Ramp(n) == asarray1([k \in 1..n |-> 20 * k])

\* uniaxial 100, 340, 345 at temperatures 60, 60, 20: the second step exceeds the yield
\* 320 of its temperature, the third stays below the yield 350 of its own
ReloadArgs ==
    [stress_history |-> asarray2(<<(<<100, 0, 0, 0, 0, 0>>), (<<340, 0, 0, 0, 0, 0>>),
                                   (<<345, 0, 0, 0, 0, 0>>)>>, 6),
     temperature_history |-> asarray1(<<60, 60, 20>>), use_plateau |-> FALSE]

IBGArgs(db) ==
    IF db = default_material_db THEN
        {[stress_history |-> h, temperature_history |-> Constant(h.shape[1], 22),
          use_plateau |-> up] : h \in Histories({BelowYield, AboveYield, AtYield}),
                                up \in BOOLEAN}
        \cup {[stress_history |-> asarray2(<<(<<100, 0, 0>>)>>, 3),
               temperature_history |-> Constant(1, 22), use_plateau |-> FALSE],
              [stress_history |-> asarray1(BelowYield),
               temperature_history |-> Constant(6, 22), use_plateau |-> FALSE],
              [stress_history |-> asarray2(<<BelowYield, AboveYield>>, 6),
               temperature_history |-> Constant(1, 22), use_plateau |-> FALSE]}
    ELSE
        {[stress_history |-> h, temperature_history |-> Ramp(h.shape[1]),
          use_plateau |-> FALSE] : h \in Histories({BelowYield, AboveYield})}
        \cup {ReloadArgs}

InitIBG ==
    /\ material \in {default_material_db, TwoTempDB}
    /\ pc = "ready"
    /\ call = NoCall
    /\ pts = <<>>
    /\ ibg = NoIBG
    /\ result = NoResult
    /\ engine = NoEngine

NextIBG ==
    \/ \E a \in IBGArgs(material) :
          ApplyIBG(a.stress_history, a.temperature_history, a.use_plateau)
    \/ IBGStep
    \/ IBGReturn

SpecIBG == InitIBG /\ [][NextIBG]_vars

(* ---------- C1, C2, C3, C7, C8: the Neuber and Glinka corrections ---------- *)
ScalarCall == call.op \in {"neuber", "glinka"}
CorrectionReturned == ScalarCall /\ pc = "done"
DefaultParameters == call.tol = DEFAULT_TOL /\ call.max_iterations = DEFAULT_MAX_ITERATIONS
Points == 1..Len(pts)
\* yield_stress(T) of point i: the temperature-blended first curve point
YieldAt(i) == yield_of_T_njit(Temp(i), material.TEMP, material.SIG)
Elastic(i) == FGt(Sigma_e(i), F0) /\ FLe(Sigma_e(i), YieldAt(i))
AboveYieldPoint(i) == FGt(Sigma_e(i), YieldAt(i))

\* C1: every point with sigma_e <= yield_stress(T) is returned unchanged, sigma_corrected
\* = sigma_e and eps_p = 0, by both corrections, for every database, temperature and
\* policy. Stated on the points with 0 < sigma_e (those with sigma_e <= 0 are returned
\* as (0, 0), see C7).
C1_ElasticFastPath ==
    CorrectionReturned =>
        \A i \in Points : Elastic(i) => result.sc[i] = Sigma_e(i) /\ result.ep[i] = F0

\* C2: every point with sigma_e > yield_stress(T) is returned with sigma_corrected <=
\* sigma_e and eps_p > 0, by both corrections. Stated at the default tolerance and
\* iteration limit.
C2_PlasticReducesStress ==
    (CorrectionReturned /\ DefaultParameters) =>
        \A i \in Points : AboveYieldPoint(i) =>
            FLe(result.sc[i], Sigma_e(i)) /\ FGt(result.ep[i], F0)

\* the relative tolerance 1e-8 of the energy balance
BALANCE_TOLERANCE == FDec(1, 100000000)
\* sigma^2 / (2 E(T)) of point i
ElasticEnergy(sigma, i) ==
    FDiv(FMul(sigma, sigma), FMul(F2, E_of_T_njit(Temp(i), material.TEMP, material.E_tab)))
\* sigma_corrected^2 / (2 E(T)) + Up(T, sigma_corrected) of point i
CorrectedEnergy(i) ==
    FAdd(ElasticEnergy(result.sc[i], i),
         Up_of_T_sigma_njit(Temp(i), result.sc[i], material.TEMP, material.SIG,
                            material.EPSP, Plateau))

\* C3: for every point with sigma_e > 0 the stress returned by the Glinka correction
\* balances the energies, sigma_c^2/(2E) + Up(T, sigma_c) = sigma_e^2/(2E), to within the
\* relative tolerance 1e-8. Stated at the default tolerance and iteration limit.
C3_GlinkaEnergyBalance ==
    (CorrectionReturned /\ call.op = "glinka" /\ DefaultParameters) =>
        \A i \in Points : FGt(Sigma_e(i), F0) =>
            FLe(FAbs(FSub(CorrectedEnergy(i), ElasticEnergy(Sigma_e(i), i))),
                FMul(BALANCE_TOLERANCE, ElasticEnergy(Sigma_e(i), i)))

\* C7: a point with sigma_e <= 0 never enters the Newton loop and is written, and
\* returned, as (sigma_corrected, eps_p) = (0, 0), by both corrections.
C7_NonPositiveIsZero ==
    ScalarCall =>
        \A i \in Points : FLe(Sigma_e(i), F0) =>
            /\ pts[i].st \in {"start", "done"}
            /\ pts[i].it = 0
            /\ pts[i].st = "done" => pts[i].sc = F0 /\ pts[i].ep = F0
            /\ pc = "done" => result.sc[i] = F0 /\ result.ep[i] = F0

\* a correction has returned for a point with sigma_e = 0
C7_Witness ==
    /\ CorrectionReturned
    /\ \E i \in Points : Sigma_e(i) = F0 /\ pts[i].it = 0 /\ result.sc[i] = F0

\* C8: for a point with sigma_e > 0 the loop makes at most max_iterations passes (and
\* Newton updates), the value returned is the last iterate with eps_p evaluated at it,
\* and no exception leaves the call: the only error outcome is the shape check.
C8_LoopBounded ==
    ScalarCall =>
        /\ pc = "raised" => call.sigma_equivalent.shape # call.temperature.shape
        /\ \A i \in Points : FGt(Sigma_e(i), F0) =>
              /\ pts[i].it <= call.max_iterations
              /\ pts[i].upd <= pts[i].it
              /\ pts[i].st # "raised"
              /\ pc = "done" =>
                    /\ result.sc[i] = pts[i].sigma
                    /\ result.ep[i] = epsp_of_T_sigma_njit(Temp(i), pts[i].sigma,
                           material.TEMP, material.SIG, material.EPSP, Plateau)

\* a correction has returned after a loop that used up all its passes without
\* meeting the tolerance, at the default limit and at a limit of 1
C8_Witness ==
    /\ CorrectionReturned
    /\ call.max_iterations \in {1, DEFAULT_MAX_ITERATIONS}
    /\ \E i \in Points : FGt(Sigma_e(i), F0) /\ pts[i].it = call.max_iterations
                         /\ pts[i].upd = call.max_iterations

(* ---------- C4, C5, C6: the incremental Buczynski-Glinka correction ---------- *)
\* the core is running, or has returned, on a history of at least one step
IBGRunning == call.op = "ibg" /\ pc \in {"ibg", "done"} /\ Steps > 0
Input(k) == call.stress_history.data[k]
VonMises(k) == von_mises_from_voigt(Input(k))
YieldOfStep(k) == yield_of_T_njit(call.temperature_history.data[k], material.TEMP, material.SIG)

\* float64 rounding allowed on a stress component (stresses are of order 1e2)
ROUNDING == FDec(1, 1000000000)
Close(x, y) == FLe(FAbs(FSub(x, y)), ROUNDING)

\* step k of the output: same hydrostatic mean as the input, and the deviatoric part
\* of the input scaled (a step copied unchanged has both, with scale 1)
MeanPreserved(k) ==
    /\ Close(mean_stress(ibg.sig_corr[k]), mean_stress(Input(k)))
    /\ IF ibg.corrected[k]
       THEN /\ \A j \in 4..6 : ibg.sig_corr[k][j] = FMul(ibg.scale[k], Input(k)[j])
            /\ \A j \in 1..3 : Close(FSub(ibg.sig_corr[k][j], mean_stress(Input(k))),
                                     FMul(ibg.scale[k],
                                          FSub(Input(k)[j], mean_stress(Input(k)))))
       ELSE ibg.sig_corr[k] = Input(k)

\* C4: at every step of every history the hydrostatic mean of the corrected stress
\* equals that of the input (up to float64 rounding), and only the deviatoric part is
\* scaled: the shear components by exactly the step's scale factor.
C4_HydrostaticMeanPreserved ==
    IBGRunning => \A k \in 1..Len(ibg.sig_corr) : MeanPreserved(k)

\* a history has been returned with a step scaled down whose mean stress is not zero
C4_Witness ==
    /\ IBGRunning
    /\ pc = "done"
    /\ \E k \in 1..Steps : /\ ibg.corrected[k]
                           /\ FLt(ibg.scale[k], F1)
                           /\ mean_stress(Input(k)) # F0
                           /\ result.sig_corr[k] # Input(k)

\* every step k >= 1 has the von Mises stress of steps k - 1 and k at or below the yield
\* stress at the temperature of step k
AllStepsElastic ==
    \A k \in 2..Steps : FLe(VonMises(k - 1), YieldOfStep(k)) /\ FLe(VonMises(k), YieldOfStep(k))

\* C5: a history of N >= 1 steps whose steps are all at or below yield is returned
\* exactly as given, with plastic strain 0 at every step.
C5_ElasticHistoryUnchanged ==
    (IBGRunning /\ pc = "done" /\ AllStepsElastic) =>
        /\ result.sig_corr = call.stress_history.data
        /\ \A k \in 1..Steps : result.epsp[k] = F0

\* an elastic history of several steps has been returned, one step exactly at yield
C5_Witness ==
    /\ IBGRunning
    /\ pc = "done"
    /\ Steps >= 2
    /\ AllStepsElastic
    /\ \E k \in 2..Steps : VonMises(k) = YieldOfStep(k)
    /\ result.sig_corr = call.stress_history.data

\* C6: step 0 is never corrected: corrected[0] is input[0] and plastic_strain[0] is 0
\* for every history, also when the von Mises stress of step 0 exceeds the yield stress.
C6_StepZeroUncorrected ==
    IBGRunning =>
        /\ ibg.sig_corr[1] = Input(1) /\ ibg.epsp[1] = F0
        /\ pc = "done" => result.sig_corr[1] = Input(1) /\ result.epsp[1] = F0

\* a history has been returned whose step 0 is above yield and whose later step was corrected
C6_Witness ==
    /\ IBGRunning
    /\ pc = "done"
    /\ Steps >= 2
    /\ FGt(VonMises(1), YieldOfStep(1))
    /\ ibg.corrected[2]
    /\ result.sig_corr[1] = Input(1)

(* ---------- evaluation of the temperature blend and of the curve rows ---------- *)
\* three temperatures; moduli, yields and plastic strains differ from row to row
ThreeTempDB ==
    from_arrays(asarray1(<<20, 60, 100>>), asarray1(<<70000, 68500, 66000>>),
                asarray2(<<(<<350, 420, 480>>), (<<320, 390, 450>>), (<<300, 360, 400>>)>>, 3),
                Array2(<<(<<F0, FDec(1, 100), FDec(5, 100)>>),
                         (<<F0, FDec(2, 100), FDec(6, 100)>>),
                         (<<F0, FDec(3, 100), FDec(8, 100)>>)>>, 3)).db

\* accepted by from_arrays (which checks no plastic strain): a first segment without
\* plastic strain and a first plastic strain above zero
FlatDB ==
    from_arrays(asarray1(<<22>>), asarray1(<<70000>>),
                asarray2(<<(<<400, 500, 600>>)>>, 3),
                Array2(<<(<<FDec(1, 1000), FDec(1, 1000), FDec(1, 10)>>)>>, 3)).db

CurveDBs == {default_material_db, TwoTempDB, ThreeTempDB, SteepDB, FlatDB}

\* argument T: below, at and above the ends of the table, and inside it
SampleT(TEMP) ==
    {FSub(TEMP[1], FInt(10)), TEMP[1], TEMP[Len(TEMP)], FAdd(TEMP[Len(TEMP)], FInt(10)),
     FAdd(TEMP[1], FInt(5))}

\* midpoints of the segments of a row
Midpoints(row) == {FMul(Half, FAdd(row[k], row[k + 1])) : k \in 1..(Len(row) - 1)}
\* argument of a curve operator on a row: below, at and beyond the row's points, at
\* the points and between them
SampleOn(row) ==
    {row[k] : k \in 1..Len(row)} \cup Midpoints(row)
        \cup {FSub(row[1], FInt(50)), FAdd(row[Len(row)], FInt(50))}
\* the same with a strain-sized margin
SampleStrain(row) ==
    {row[k] : k \in 1..Len(row)} \cup Midpoints(row)
        \cup {FSub(row[1], FDec(1, 100)), FAdd(row[Len(row)], FDec(1, 100))}

\* argument T of the bracket lookup: also every temperature of the table and the
\* middle of every interval
BracketT(TEMP) == SampleT(TEMP) \cup {TEMP[k] : k \in 1..Len(TEMP)} \cup Midpoints(TEMP)

Value(v) == [value |-> v]

\* _bound_T_indices_njit(T, TEMP): i and j counted from 1, w the value
BoundTIndices(T) ==
    /\ pc = "ready"
    /\ call' = [op |-> "bound_T_indices", T |-> T]
    /\ result' = Let(bound_T_indices_njit(T, material.TEMP),
                     LAMBDA b : [i |-> b[1], j |-> b[2], value |-> b[3]])
    /\ pc' = "evaluated"
    /\ UNCHANGED <<material, pts, ibg, engine>>

\* E_of_T_njit(T, TEMP, E_tab)
EOfT(T) ==
    /\ pc = "ready"
    /\ call' = [op |-> "E_of_T", T |-> T]
    /\ result' = Value(E_of_T_njit(T, material.TEMP, material.E_tab))
    /\ pc' = "evaluated"
    /\ UNCHANGED <<material, pts, ibg, engine>>

\* yield_of_T_njit(T, TEMP, SIG)
YieldOfT(T) ==
    /\ pc = "ready"
    /\ call' = [op |-> "yield_of_T", T |-> T]
    /\ result' = Value(yield_of_T_njit(T, material.TEMP, material.SIG))
    /\ pc' = "evaluated"
    /\ UNCHANGED <<material, pts, ibg, engine>>

\* epsp_of_T_sigma_njit(T, sig, TEMP, SIG, EPSP, use_plateau)
EpspOfTSigma(T, sig, use_plateau) ==
    /\ pc = "ready"
    /\ call' = [op |-> "epsp_of_T_sigma", T |-> T, x |-> sig, use_plateau |-> use_plateau]
    /\ result' = Value(epsp_of_T_sigma_njit(T, sig, material.TEMP, material.SIG,
                                            material.EPSP, use_plateau))
    /\ pc' = "evaluated"
    /\ UNCHANGED <<material, pts, ibg, engine>>

\* sigma_of_T_epsp_njit(T, epsp, TEMP, SIG, EPSP, use_plateau)
SigmaOfTEpsp(T, epsp, use_plateau) ==
    /\ pc = "ready"
    /\ call' = [op |-> "sigma_of_T_epsp", T |-> T, x |-> epsp, use_plateau |-> use_plateau]
    /\ result' = Value(sigma_of_T_epsp_njit(T, epsp, material.TEMP, material.SIG,
                                            material.EPSP, use_plateau))
    /\ pc' = "evaluated"
    /\ UNCHANGED <<material, pts, ibg, engine>>

\* Up_of_T_sigma_njit(T, sig, TEMP, SIG, EPSP, use_plateau)
UpOfTSigma(T, sig, use_plateau) ==
    /\ pc = "ready"
    /\ call' = [op |-> "Up_of_T_sigma", T |-> T, x |-> sig, use_plateau |-> use_plateau]
    /\ result' = Value(Up_of_T_sigma_njit(T, sig, material.TEMP, material.SIG,
                                          material.EPSP, use_plateau))
    /\ pc' = "evaluated"
    /\ UNCHANGED <<material, pts, ibg, engine>>

\* _interp_epsp_on_curve_njit(sig, SIG[r], EPSP[r], use_plateau)
InterpEpspOnCurve(r, sig, use_plateau) ==
    /\ pc = "ready"
    /\ call' = [op |-> "interp_epsp_on_curve", row |-> r, x |-> sig,
                use_plateau |-> use_plateau]
    /\ result' = Value(interp_epsp_on_curve_njit(sig, material.SIG[r], material.EPSP[r],
                                                 use_plateau))
    /\ pc' = "interpolated"
    /\ UNCHANGED <<material, pts, ibg, engine>>

\* _invert_sigma_on_curve_njit applied to the strain just interpolated, same row and flag
InvertSigmaOnCurve ==
    /\ pc = "interpolated"
    /\ call' = [call EXCEPT !.op = "invert_sigma_on_curve"]
    /\ result' = [value |-> result.value,
                  back |-> invert_sigma_on_curve_njit(result.value, material.SIG[call.row],
                                                      material.EPSP[call.row],
                                                      call.use_plateau)]
    /\ pc' = "inverted"
    /\ UNCHANGED <<material, pts, ibg, engine>>

\* _plastic_energy_on_curve_njit(sig, SIG[r], EPSP[r], use_plateau)
PlasticEnergyOnCurve(r, sig, use_plateau) ==
    /\ pc = "ready"
    /\ call' = [op |-> "plastic_energy_on_curve", row |-> r, x |-> sig,
                use_plateau |-> use_plateau]
    /\ result' = Value(plastic_energy_on_curve_njit(sig, material.SIG[r], material.EPSP[r],
                                                    use_plateau))
    /\ pc' = "integrated"
    /\ UNCHANGED <<material, pts, ibg, engine>>

\* _invert_sigma_on_curve_njit(epsp, SIG[r], EPSP[r], use_plateau)
InvertSigmaOfStrain(r, epsp, use_plateau) ==
    /\ pc = "ready"
    /\ call' = [op |-> "invert_sigma_on_curve", row |-> r, x |-> epsp,
                use_plateau |-> use_plateau]
    /\ result' = Value(invert_sigma_on_curve_njit(epsp, material.SIG[r], material.EPSP[r],
                                                  use_plateau))
    /\ pc' = "stress_found"
    /\ UNCHANGED <<material, pts, ibg, engine>>

InitCurve ==
    /\ material \in CurveDBs
    /\ pc = "ready"
    /\ call = NoCall
    /\ pts = <<>>
    /\ ibg = NoIBG
    /\ result = NoResult
    /\ engine = NoEngine

NextCurve ==
    \/ \E T \in BracketT(material.TEMP) : BoundTIndices(T)
    \/ \E T \in SampleT(material.TEMP) : EOfT(T)
    \/ \E T \in SampleT(material.TEMP) : YieldOfT(T)
    \/ \E T \in SampleT(material.TEMP), sig \in SampleOn(material.SIG[1]),
          use_plateau \in {0, 1} : EpspOfTSigma(T, sig, use_plateau)
    \/ \E T \in SampleT(material.TEMP), epsp \in SampleStrain(material.EPSP[1]),
          use_plateau \in {0, 1} : SigmaOfTEpsp(T, epsp, use_plateau)
    \/ \E T \in SampleT(material.TEMP), sig \in SampleOn(material.SIG[1]),
          use_plateau \in {0, 1} : UpOfTSigma(T, sig, use_plateau)
    \/ \E r \in 1..Len(material.SIG) :
          \E sig \in SampleOn(material.SIG[r]), use_plateau \in {0, 1} :
              InterpEpspOnCurve(r, sig, use_plateau)
    \/ InvertSigmaOnCurve
    \/ \E r \in 1..Len(material.SIG) :
          \E sig \in SampleOn(material.SIG[r]), use_plateau \in {0, 1} :
              PlasticEnergyOnCurve(r, sig, use_plateau)
    \/ \E r \in 1..Len(material.SIG) :
          \E epsp \in SampleStrain(material.EPSP[r]), use_plateau \in {0, 1} :
              InvertSigmaOfStrain(r, epsp, use_plateau)

SpecCurve == InitCurve /\ [][NextCurve]_vars

(* ---------- sequences of correction calls on one database ---------- *)
\* the caller takes the result (or the exception) and is ready for its next call;
\* nothing of the finished call is cleared
CallReturns ==
    /\ pc \in {"done", "raised"}
    /\ pc' = "ready"
    /\ UNCHANGED <<material, call, pts, ibg, result, engine>>

\* scalar calls of the sequences: one point above yield, two points, and two stresses
\* with one temperature
SequenceScalarArgs ==
    {Args(<<500>>, <<22>>, DEFAULT_TOL, DEFAULT_MAX_ITERATIONS, FALSE),
     Args(<<-5, 450>>, <<22, 22>>, DEFAULT_TOL, DEFAULT_MAX_ITERATIONS, FALSE),
     Args(<<300, 500>>, <<22>>, DEFAULT_TOL, DEFAULT_MAX_ITERATIONS, FALSE)}
\* histories of the sequences: plastic from the second step on, elastic then plastic;
\* a history of 3 columns, a 1-D history, and 3 temperatures for 2 steps
SequenceIBGArgs ==
    {[stress_history |-> asarray2(h, 6), temperature_history |-> Constant(Len(h), 22),
      use_plateau |-> FALSE] :
        h \in {<<BelowYield, AboveYield, AtYield>>, <<BelowYield, BelowYield, AboveYield>>}}
    \cup {[stress_history |-> asarray2(<<(<<100, 0, 0>>)>>, 3),
           temperature_history |-> Constant(1, 22), use_plateau |-> FALSE],
          [stress_history |-> asarray1(BelowYield),
           temperature_history |-> Constant(6, 22), use_plateau |-> FALSE],
          [stress_history |-> asarray2(<<BelowYield, AboveYield>>, 6),
           temperature_history |-> Constant(3, 22), use_plateau |-> FALSE]}

InitCalls ==
    /\ material = default_material_db
    /\ pc = "ready"
    /\ call = NoCall
    /\ pts = <<>>
    /\ ibg = NoIBG
    /\ result = NoResult
    /\ engine = NoEngine

NextCalls ==
    \/ \E method \in {"neuber", "glinka"}, a \in SequenceScalarArgs :
          ApplyCorrection(method, a.sigma_equivalent, a.temperature, a.tol,
                          a.max_iterations, a.use_plateau)
    \/ \E i \in 1..Len(pts) : PointStart(i)
    \/ \E i \in 1..Len(pts) : NeuberPass(i)
    \/ \E i \in 1..Len(pts) : GlinkaPass(i)
    \/ \E i \in 1..Len(pts) : PointFinish(i)
    \/ ReturnCorrection
    \/ \E a \in SequenceIBGArgs :
          ApplyIBG(a.stress_history, a.temperature_history, a.use_plateau)
    \/ IBGStep
    \/ IBGReturn
    \/ CallReturns

SpecCalls == InitCalls /\ [][NextCalls]_vars

(* ---------- the correction calls on the runtime edge cases ---------- *)
\* accepted by from_arrays: no temperature row at all
EmptyDB == from_arrays(asarray1(<<>>), asarray1(<<>>), asarray2(<<>>, 2), Array2(<<>>, 2)).db

EdgeDBs == {default_material_db, ZeroYieldDB, NegativeYieldDB, EmptyDB}

\* stresses below, at and above zero, temperatures below and above the table
EdgeScalarArgs ==
    {Args(<<se>>, <<T>>, DEFAULT_TOL, DEFAULT_MAX_ITERATIONS, up) :
        se \in {-5, 0, 50}, T \in {10, 100}, up \in BOOLEAN}

Unloaded == <<0, 0, 0, 0, 0, 0>>
Loaded == <<50, 0, 0, 10, 0, 0>>
EdgeIBGArgs ==
    {[stress_history |-> asarray2(h, 6), temperature_history |-> asarray1(<<10, 100>>),
      use_plateau |-> up] :
        h \in {<<Unloaded, Loaded>>, <<Loaded, Unloaded>>, <<Loaded, Loaded>>},
        up \in BOOLEAN}

InitEdge ==
    /\ material \in EdgeDBs
    /\ pc = "ready"
    /\ call = NoCall
    /\ pts = <<>>
    /\ ibg = NoIBG
    /\ result = NoResult
    /\ engine = NoEngine

NextEdge ==
    \/ \E method \in {"neuber", "glinka"}, a \in EdgeScalarArgs :
          ApplyCorrection(method, a.sigma_equivalent, a.temperature, a.tol,
                          a.max_iterations, a.use_plateau)
    \/ \E i \in 1..Len(pts) : PointStart(i)
    \/ \E i \in 1..Len(pts) : NeuberPass(i)
    \/ \E i \in 1..Len(pts) : GlinkaPass(i)
    \/ \E i \in 1..Len(pts) : PointFinish(i)
    \/ ReturnCorrection
    \/ \E a \in EdgeIBGArgs :
          ApplyIBG(a.stress_history, a.temperature_history, a.use_plateau)
    \/ IBGStep
    \/ IBGStepOutOfBounds
    \/ IBGReturn

SpecEdge == InitEdge /\ [][NextEdge]_vars

(* ---------- AnalysisEngine: the solver and its plasticity context ---------- *)
\* config.plasticity: a PlasticityConfig; default_temperature is <<>> for None
PlasticityConfig(is_active, method, material_profile, temperature_field, default_temperature) ==
    [none |-> FALSE, is_active |-> is_active, method |-> method,
     material_profile |-> material_profile, temperature_field |-> temperature_field,
     default_temperature |-> default_temperature]

\* PlasticityRuntimeContext(method=..., temperatures=..., default_temperature=...)
PlasticityRuntimeContext(config, temperatures) ==
    [none |-> FALSE, method |-> config.method, temperatures |-> temperatures,
     default_temperature |-> IF config.default_temperature \in {<<>>, <<0>>} THEN 22
                             ELSE config.default_temperature[1]]

\* build_material_db_from_profile raises PlasticityDataError on an unusable profile
build_material_db_raises(config) == config.material_profile = "invalid"
\* map_temperature_field_to_nodes raises PlasticityDataError when a node has no
\* temperature in the field and there is no default to fall back on
map_temperature_field_raises(config) ==
    config.temperature_field = "incomplete" /\ config.default_temperature = <<>>

Configured(context) == [context |-> context, error |-> "none"]
\* except PlasticityDataError: set_plasticity_context(None); raise ValueError
DataError == [context |-> NoContext, error |-> "ValueError"]

\* _configure_plasticity_context: the context the solver is left with, and the error
configure_plasticity_context(config) ==
    IF build_material_db_raises(config) THEN DataError
    ELSE IF config.method \in {"neuber", "glinka"}
    THEN IF config.temperature_field # "None"
         THEN IF map_temperature_field_raises(config) THEN DataError
              ELSE Configured(PlasticityRuntimeContext(config, "mapped"))
         ELSE IF config.default_temperature # <<>>
         THEN Configured(PlasticityRuntimeContext(config, "default"))
         ELSE DataError
    ELSE Configured(PlasticityRuntimeContext(config, "None"))

\* self.solver = solver; self.plasticity_config = config.plasticity: the engine
\* with a new solver carrying `context`
solver_assigned(e, config, context) ==
    [e EXCEPT !.solver = [none |-> FALSE, context |-> context],
              !.plasticity_config = config]

\* create_solver: the engine afterwards and the error raised ("none": returned)
create_solver(e, config) ==
    IF ~e.data THEN [engine |-> e, error |-> "AttributeError"]
    ELSE IF ~config.none /\ config.is_active
    THEN Let(configure_plasticity_context(config), LAMBDA r :
             [engine |-> solver_assigned(e, config, r.context), error |-> r.error])
    ELSE [engine |-> solver_assigned(e, config, NoContext), error |-> "none"]

\* if self.solver is None: self.solver = self.create_solver(config)
ensure_solver(e, config) ==
    IF e.solver.none THEN create_solver(e, config) ELSE [engine |-> e, error |-> "none"]

BetweenCalls == pc \in {"ready", "returned", "raised", "analysed"}
Outcome(error, context) == [error |-> error, context |-> context]

\* AnalysisEngine.configure_data
ConfigureData ==
    /\ BetweenCalls
    /\ engine' = [engine EXCEPT !.data = TRUE]
    /\ call' = [op |-> "configure_data", config |-> NoConfig]
    /\ result' = Outcome("none", NoContext)
    /\ pc' = "returned"
    /\ UNCHANGED <<material, pts, ibg>>

\* AnalysisEngine.create_solver(config)
CreateSolver(config) ==
    /\ BetweenCalls
    /\ engine' = create_solver(engine, config).engine
    /\ call' = [op |-> "create_solver", config |-> config]
    /\ result' = Outcome(create_solver(engine, config).error, NoContext)
    /\ pc' = IF create_solver(engine, config).error = "none" THEN "returned" ELSE "raised"
    /\ UNCHANGED <<material, pts, ibg>>

\* AnalysisEngine.run_batch_analysis(config): process_results_in_batch runs on
\* self.solver, with the plasticity context that solver carries
RunBatchAnalysis(config) ==
    /\ BetweenCalls
    /\ engine' = ensure_solver(engine, config).engine
    /\ call' = [op |-> "run_batch_analysis", config |-> config]
    /\ IF ensure_solver(engine, config).error # "none"
       THEN /\ result' = Outcome(ensure_solver(engine, config).error, NoContext)
            /\ pc' = "raised"
       ELSE /\ result' = Outcome("none", engine'.solver.context)
            /\ pc' = "analysed"
    /\ UNCHANGED <<material, pts, ibg>>

\* AnalysisEngine.run_single_node_analysis(node_id, config); found: node_id is one of
\* stress_data.node_ids
RunSingleNodeAnalysis(found, config) ==
    /\ BetweenCalls
    /\ engine' = ensure_solver(engine, config).engine
    /\ call' = [op |-> "run_single_node_analysis", config |-> config]
    /\ IF ensure_solver(engine, config).error # "none"
       THEN /\ result' = Outcome(ensure_solver(engine, config).error, NoContext)
            /\ pc' = "raised"
       ELSE IF ~found
       THEN /\ result' = Outcome("ValueError", NoContext)
            /\ pc' = "raised"
       ELSE /\ result' = Outcome("none", engine'.solver.context)
            /\ pc' = "analysed"
    /\ UNCHANGED <<material, pts, ibg>>

\* AnalysisEngine.reset
Reset ==
    /\ BetweenCalls
    /\ engine' = [engine EXCEPT !.solver = NoSolver, !.plasticity_config = NoConfig]
    /\ call' = [op |-> "reset", config |-> NoConfig]
    /\ result' = Outcome("none", NoContext)
    /\ pc' = "returned"
    /\ UNCHANGED <<material, pts, ibg>>

\* the configurations passed to the engine: no plasticity, an inactive one, and the
\* active ones over method, profile, temperature field and default temperature
EngineConfigs ==
    {NoConfig, PlasticityConfig(FALSE, "neuber", "valid", "None", <<>>)}
        \cup {PlasticityConfig(TRUE, method, profile, field, default) :
                 method \in {"neuber", "glinka", "ibg"}, profile \in {"valid", "invalid"},
                 field \in {"None", "complete", "incomplete"},
                 default \in {<<>>, <<0>>, <<100>>}}

InitEngine ==
    /\ material = NoDB
    /\ pc = "ready"
    /\ call = NoCall
    /\ pts = <<>>
    /\ ibg = NoIBG
    /\ result = NoResult
    /\ engine = NoEngine

NextEngine ==
    \/ ConfigureData
    \/ \E config \in EngineConfigs : CreateSolver(config)
    \/ \E config \in EngineConfigs : RunBatchAnalysis(config)
    \/ \E found \in BOOLEAN, config \in EngineConfigs : RunSingleNodeAnalysis(found, config)
    \/ Reset

SpecEngine == InitEngine /\ [][NextEngine]_vars

(* ---------- C11: the database after construction ---------- *)
\* C11: after from_arrays has returned a database, nothing that happens later, the
\* caller storing into the raw arrays it passed included, changes the temperatures,
\* moduli or curves the database holds: they stay what from_arrays returned.
C11_DatabaseKeepsItsArrays ==
    (call.op = "from_arrays" /\ result.ok) => material = result.db

(* ---------- C12: the temperature blend at and beyond the ends of the table ---------- *)
BlendedQuantities ==
    {"E_of_T", "yield_of_T", "epsp_of_T_sigma", "sigma_of_T_epsp", "Up_of_T_sigma"}
BlendEvaluated == pc = "evaluated" /\ call.op \in BlendedQuantities
\* the unblended value of the evaluated quantity on temperature row r
RowValue(r) ==
    CASE call.op = "E_of_T" -> material.E_tab[r]
      [] call.op = "yield_of_T" -> material.SIG[r][1]
      [] call.op = "epsp_of_T_sigma" ->
            interp_epsp_on_curve_njit(call.x, material.SIG[r], material.EPSP[r],
                                      call.use_plateau)
      [] call.op = "sigma_of_T_epsp" ->
            invert_sigma_on_curve_njit(call.x, material.SIG[r], material.EPSP[r],
                                       call.use_plateau)
      [] OTHER ->
            plastic_energy_on_curve_njit(call.x, material.SIG[r], material.EPSP[r],
                                         call.use_plateau)
LastRow == Len(material.TEMP)

\* C12: each of E(T), yield(T), eps_p(T, sigma), sigma(T, eps_p) and Up(T, sigma) is
\* exactly the first temperature row's own value when T is the first temperature or
\* below it, and exactly the last row's own value when T is the last temperature or
\* above it.
C12_EndRowsUnblended ==
    BlendEvaluated =>
        /\ FLe(call.T, material.TEMP[1]) => result.value = RowValue(1)
        /\ FGe(call.T, material.TEMP[LastRow]) => result.value = RowValue(LastRow)

\* a plastic strain evaluated at the last of three temperatures, where the last row's
\* value differs from its neighbour's
C12_Witness ==
    /\ BlendEvaluated
    /\ call.op = "epsp_of_T_sigma"
    /\ LastRow = 3
    /\ call.T = material.TEMP[LastRow]
    /\ RowValue(LastRow) # RowValue(LastRow - 1)
    /\ result.value = RowValue(LastRow)

(* ---------- C13: stress -> plastic strain -> stress on one curve row ---------- *)
\* the relative error allowed to the round trip for the EPS in the two denominators
ROUND_TRIP_TOLERANCE == ONE_E6
RoundTripDone == pc = "inverted"
CurveRow == material.SIG[call.row]
InTabulatedRange == FLe(CurveRow[1], call.x) /\ FLe(call.x, CurveRow[Len(CurveRow)])

\* C13: on every curve row of an accepted database and for every stress between the
\* row's first and last stress point, the stress of the plastic strain of that stress
\* is the stress again, within a relative error of 1e-6, under either policy.
C13_CurveRoundTrip ==
    (RoundTripDone /\ InTabulatedRange)
        => FLe(FAbs(FSub(result.back, call.x)), FMul(ROUND_TRIP_TOLERANCE, FAbs(call.x)))

\* the same on the rows whose plastic strain increases strictly
C13_OnIncreasingStrain ==
    (RoundTripDone /\ InTabulatedRange /\ material # FlatDB)
        => FLe(FAbs(FSub(result.back, call.x)), FMul(ROUND_TRIP_TOLERANCE, FAbs(call.x)))

(* ---------- C14: the prange loops against their sequential execution ---------- *)
\* the for-loop of solve_neuber_vector_core for point i, run from pass `it` to its end
RECURSIVE neuber_loop(_, _, _)
neuber_loop(sigma, it, i) ==
    IF ~loop_continues(it, call.max_iterations) THEN sigma
    ELSE Let(neuber_pass(sigma, Sigma_e(i), Temp(i), material, call.tol, Plateau),
             LAMBDA p : IF p[2] THEN p[1] ELSE neuber_loop(p[1], it + 1, i))

\* the for-loop of solve_glinka_vector_core for point i, run from pass `it` to its end
RECURSIVE glinka_loop(_, _, _, _, _)
glinka_loop(sigma, it, i, E, Ue0) ==
    IF ~loop_continues(it, call.max_iterations) THEN sigma
    ELSE Let(glinka_pass(sigma, E, Ue0, Temp(i), material, call.tol, Plateau),
             LAMBDA p : IF p[2] THEN p[1] ELSE glinka_loop(p[1], it + 1, i, E, Ue0))

\* sc[i] of the loop body executed alone, in program order
sequential_sc(i) ==
    IF fast_path(Sigma_e(i)) THEN F0
    ELSE IF call.op = "neuber"
    THEN neuber_loop(initial_sigma(Sigma_e(i), Temp(i), material), 0, i)
    ELSE Let(E_of_T_njit(Temp(i), material.TEMP, material.E_tab), LAMBDA E :
             glinka_loop(initial_sigma(Sigma_e(i), Temp(i), material), 0, i, E,
                         FDiv(FMul(Sigma_e(i), Sigma_e(i)), FAdd(FMul(F2, E), EPS))))

\* ep[i] of the loop body executed alone
sequential_ep(i) ==
    IF fast_path(Sigma_e(i)) THEN F0
    ELSE epsp_of_T_sigma_njit(Temp(i), sequential_sc(i), material.TEMP, material.SIG,
                              material.EPSP, Plateau)

SeveralPoints == Len(pts) >= 2

\* every output entry is stored at most once while the loop runs, exactly once when
\* the arrays are returned, and the returned arrays are those of sequential execution
OutputsOfSequentialRun ==
    /\ (InScalarCall /\ SeveralPoints) => \A i \in 1..Len(pts) : pts[i].writes <= 1
    /\ (call.op \in {"neuber", "glinka"} /\ pc = "done" /\ SeveralPoints) =>
          \A i \in 1..Len(pts) :
              /\ pts[i].writes = 1
              /\ result.sc[i] = sequential_sc(i)
              /\ result.ep[i] = sequential_ep(i)

\* a step of the loop leaves the database and the input arrays alone, changes the
\* record of one work unit only and never an entry that is already stored
LoopStepFrame ==
    (InScalarCall /\ pc' = pc) =>
        /\ material' = material
        /\ call' = call
        /\ \E i \in 1..Len(pts) : \A j \in 1..Len(pts) : j # i => pts'[j] = pts[j]
        /\ \A i \in 1..Len(pts) : pts[i].st = "done" => pts'[i] = pts[i]

\* C14: in the parallel Neuber and Glinka loops a work unit writes only its own output
\* entries, each exactly once, and never the database or the inputs; in whatever order
\* the work units' steps are interleaved, the returned arrays are those of executing
\* the loop body for each point alone, in program order.
C14_InterleavingIndependent == []OutputsOfSequentialRun /\ [][LoopStepFrame]_vars

\* a two-point call whose points both ran the Newton loop has returned
C14_Witness ==
    /\ call.op \in {"neuber", "glinka"}
    /\ pc = "done"
    /\ SeveralPoints
    /\ \A i \in 1..Len(pts) : pts[i].it >= 2 /\ pts[i].writes = 1
    /\ result.sc[1] # result.sc[2]

(* ---------- C15: no state is carried from one correction call to the next ---------- *)
\* the history loop of ibg_solver_tensor_core from step k on, given the steps so far
RECURSIVE ibg_history(_, _)
ibg_history(k, acc) ==
    IF k > Steps THEN acc
    ELSE Let(ibg_step(k, call.stress_history.data, call.temperature_history.data[k],
                      SubSeq([j \in 1..Steps |-> VonMises(j)], 1, Steps),
                      acc.eps_prev, material, Plateau),
             LAMBDA s : ibg_history(k + 1, [sig_corr |-> Append(acc.sig_corr, s.sig),
                                            epsp |-> Append(acc.epsp, s.eps_prev),
                                            eps_prev |-> s.eps_prev]))

\* the history computed from an accumulated plastic strain of 0 at step 0
FromZeroStrain ==
    ibg_history(2, [sig_corr |-> <<Input(1)>>, epsp |-> <<F0>>, eps_prev |-> F0])

\* C15: whatever calls ran before, a returned Neuber, Glinka or IBG call has the outputs
\* that its own inputs and the database determine; an IBG call starts from accumulated
\* plastic strain 0 and carries the strain only from step to step of its own history.
C15_OutputsOfInputsOnly ==
    /\ (call.op \in {"neuber", "glinka"} /\ pc = "done") =>
          \A i \in 1..Len(pts) : /\ result.sc[i] = sequential_sc(i)
                                 /\ result.ep[i] = sequential_ep(i)
    /\ (call.op = "ibg" /\ pc = "done") =>
          /\ result.sig_corr = FromZeroStrain.sig_corr
          /\ result.epsp = FromZeroStrain.epsp

\* an IBG call that accumulated plastic strain has returned after a scalar call
C15_Witness ==
    /\ call.op = "ibg"
    /\ pc = "done"
    /\ Len(pts) > 0
    /\ FGt(result.epsp[Steps], F0)
    /\ result.epsp[2] = F0

(* ---------- C16: the shape checks of the three wrappers ---------- *)
ScalarShapesDiffer ==
    call.op \in {"neuber", "glinka"} /\ call.sigma_equivalent.shape # call.temperature.shape
NotNBySix ==
    call.op = "ibg" /\ (call.stress_history.ndim # 2 \/ call.stress_history.shape[2] # 6)
TemperatureLengthDiffers ==
    /\ call.op = "ibg"
    /\ call.temperature_history.shape[1] # call.stress_history.shape[1]
PreconditionFails == ScalarShapesDiffer \/ NotNBySix \/ TemperatureLengthDiffers

\* a call whose precondition fails is never inside a core and never returns a result
NoResultOnFailure ==
    PreconditionFails => (pc \in {"raised", "ready"} /\ ~result.ok /\ result.error = "ValueError")
\* the step that makes such a call raises, and computes nothing
RaisesBeforeComputing ==
    (pc = "ready" /\ pc' # "ready" /\ PreconditionFails') =>
        (pc' = "raised" /\ ~result'.ok /\ pts' = pts /\ ibg' = ibg)

\* C16: apply_neuber_correction and apply_glinka_correction raise when sigma_equivalent
\* and temperature differ in shape, apply_ibg_correction raises when stress_history is
\* not N x 6 or temperature_history has another length than stress_history has rows;
\* the error comes before any correction is computed and no result is returned.
C16_PreconditionErrors == []NoResultOnFailure /\ [][RaisesBeforeComputing]_vars

\* an IBG call with 3 temperatures for 2 steps has raised after another call computed
C16_Witness ==
    /\ pc = "raised"
    /\ TemperatureLengthDiffers
    /\ ~NotNBySix
    /\ ibg.k > 0

(* ---------- C17: the runtime edge cases never raise ---------- *)
CallMade == call.op \in {"neuber", "glinka", "ibg"}
Failed == pc \in {"raised", "crashed"} \/ \E i \in 1..Len(pts) : pts[i].st \in {"raised", "crashed"}

\* C17: on every database accepted by from_arrays, a Neuber, Glinka or IBG call with
\* stresses <= 0, a first curve point at or below zero, or temperatures outside the
\* table never raises (nor dies): it runs to its return.
C17_EdgeCasesReturn == CallMade => ~Failed

\* the same on the accepted databases that have at least one temperature row
C17_OnNonEmptyTables == (CallMade /\ Len(material.TEMP) > 0) => ~Failed

(* ---------- C18: the Glinka loop against the scaffold of the Neuber loop ---------- *)
\* the Glinka residual Uc - Ue0 of point i at sigma
GlinkaResidual(sigma, i) ==
    FSub(glinka_energy(sigma, pts[i].E,
                       Up_of_T_sigma_njit(Temp(i), sigma, material.TEMP, material.SIG,
                                          material.EPSP, Plateau)),
         pts[i].Ue0)
\* the pass of the Neuber scaffold on the Glinka residual at the iterate of point i
ScaffoldPass(i) ==
    newton_pass(pts[i].sigma, GlinkaResidual(pts[i].sigma, i),
                GlinkaResidual(FAdd(pts[i].sigma, finite_difference_step(pts[i].sigma)), i),
                finite_difference_step(pts[i].sigma), call.tol)
\* point i makes a pass of the Glinka loop in this step
GlinkaPasses(i) == pc = "glinka" /\ pts[i].st = "loop" /\ pts'[i].it = pts[i].it + 1
\* the energy residual at the iterate is below tol (the test at line 439)
ResidualBelowTol(i) ==
    FLt(FDiv(FAbs(GlinkaResidual(pts[i].sigma, i)), FAdd(FAbs(pts[i].Ue0), EPS)), call.tol)
\* the two iterates agree to the rounding of the finite-difference quotient
SameIterate(x, y) == FLe(FAbs(FSub(x, y)), FMul(ONE_E9, FAbs(y)))
\* the first iterate of either loop: min(sigma_e, yield), or 1e-6 if that is not positive
SameInitialIterate ==
    \A i \in 1..Len(pts) :
        (pc \in {"neuber", "glinka"} /\ pts[i].st = "start" /\ pts'[i].st = "loop")
            => pts'[i].sigma = initial_sigma(Sigma_e(i), Temp(i), material)

NeuberOnDefault ==
    /\ call.op = "neuber"
    /\ pc = "done"
    /\ material = default_material_db
    /\ DefaultParameters
UpToYield(i) == FGt(Sigma_e(i), F0) /\ FLe(Sigma_e(i), FInt(400))

\* C19: on the default database, with the default tol and max_iterations, at any
\* temperature, apply_neuber_correction returns for every point with 0 < sigma_e <= 400
\* a corrected stress within the relative tolerance 1e-10 of sigma_e, and eps_p = 0.
C19_DefaultElastic ==
    NeuberOnDefault =>
        \A i \in 1..Len(pts) : UpToYield(i) =>
            /\ FLe(FAbs(FSub(result.sc[i], Sigma_e(i))), FMul(DEFAULT_TOL, Sigma_e(i)))
            /\ result.ep[i] = F0

\* the same for stresses from 1 on
C19_FromOne ==
    NeuberOnDefault =>
        \A i \in 1..Len(pts) : (UpToYield(i) /\ FGe(Sigma_e(i), F1)) =>
            /\ FLe(FAbs(FSub(result.sc[i], Sigma_e(i))), FMul(DEFAULT_TOL, Sigma_e(i)))
            /\ result.ep[i] = F0

(* ---------- C20: plastic strain of stress on one curve row ---------- *)
RowEvaluated == pc \in {"interpolated", "inverted"}
StrainRow == material.EPSP[call.row]
Points2 == Len(CurveRow)
\* the straight line through points k and k + 1 of the row at the stress x, computed
\* without the EPS of the code's denominator
LineThrough(k, x) ==
    FAdd(StrainRow[k],
         FMul(FSub(x, CurveRow[k]),
              FDiv(FSub(StrainRow[k + 1], StrainRow[k]), FSub(CurveRow[k + 1], CurveRow[k]))))
\* equal up to the effect of EPS and of rounding, on the scale of the row's strains
NearOnRow(x, y) == FLe(FAbs(FSub(x, y)), FMul(ONE_E9, FAbs(StrainRow[Points2])))

\* C20: on one curve row the plastic strain of a stress is 0 up to the first stress
\* point; on a segment stress[k] <= sigma <= stress[k+1] it is the linear interpolation
\* between the two plastic strains; beyond the last point it is the last plastic strain
\* under the plateau policy and the final segment's line continued under the linear one.
C20_PiecewiseLinear ==
    RowEvaluated =>
        IF FLe(call.x, CurveRow[1]) THEN result.value = F0
        ELSE IF FLe(call.x, CurveRow[Points2])
        THEN \A k \in 1..(Points2 - 1) :
                (FLe(CurveRow[k], call.x) /\ FLe(call.x, CurveRow[k + 1]))
                    => NearOnRow(result.value, LineThrough(k, call.x))
        ELSE IF call.use_plateau = 1 THEN result.value = StrainRow[Points2]
        ELSE NearOnRow(result.value, LineThrough(Points2 - 1, call.x))

\* a stress strictly inside a segment got a strain strictly between the segment's two
C20_Witness ==
    /\ RowEvaluated
    /\ \E k \in 1..(Points2 - 1) :
          /\ FLt(CurveRow[k], call.x) /\ FLt(call.x, CurveRow[k + 1])
          /\ FLt(StrainRow[k], result.value) /\ FLt(result.value, StrainRow[k + 1])

(* ---------- C21: the plastic energy as the integral of the flow stress ---------- *)
\* the relative error allowed for the EPS in the denominators of the curve operators
INTEGRAL_TOLERANCE == ONE_E6
EnergyEvaluated == pc = "integrated"
\* stress_of_plastic_strain on the evaluated row under the evaluated policy
FlowStress(epsp) ==
    invert_sigma_on_curve_njit(epsp, material.SIG[call.row], material.EPSP[call.row],
                               call.use_plateau)
\* plastic_strain_of_stress of the evaluated stress
StrainOfStress ==
    interp_epsp_on_curve_njit(call.x, material.SIG[call.row], material.EPSP[call.row],
                              call.use_plateau)
\* the ends of the trapezoids of the integral from 0 to `upper`: 0, the row's plastic
\* strains inside the interval, and `upper`
Knots(upper) ==
    Let(material.EPSP[call.row], LAMBDA e :
        SubSeq([k \in 1..(Len(e) + 2) |->
                   IF k = 1 THEN F0
                   ELSE IF k = Len(e) + 2 THEN upper
                   ELSE FMin(FMax(e[k - 1], F0), upper)], 1, Len(e) + 2))
RECURSIVE TrapezoidSum(_, _, _, _)
TrapezoidSum(k, area, knots, stress) ==
    IF k >= Len(knots) THEN area
    ELSE Let(FAdd(area, trapezoid(stress[k], stress[k + 1], knots[k], knots[k + 1])),
             LAMBDA a : TrapezoidSum(k + 1, a, knots, stress))
\* the trapezoidal integral of the flow stress over plastic strain from 0 to `upper`
FlowIntegral(upper) ==
    Let(Knots(upper), LAMBDA knots :
        Let(SubSeq([k \in 1..Len(knots) |-> FlowStress(knots[k])], 1, Len(knots)),
            LAMBDA stress : TrapezoidSum(1, F0, knots, stress)))
EnergyIsIntegral ==
    Let(FlowIntegral(StrainOfStress), LAMBDA integral :
        FLe(FAbs(FSub(result.value, integral)), FMul(INTEGRAL_TOLERANCE, FAbs(integral))))

\* C21: on every curve row of an accepted database, for every stress and under either
\* policy, the plastic energy of the stress is the trapezoidal integral of the flow
\* stress over plastic strain from 0 to the plastic strain of that stress, within a
\* relative error of 1e-6.
C21_EnergyIsFlowIntegral == EnergyEvaluated => EnergyIsIntegral

\* the same on the rows whose plastic strain starts at 0 and increases strictly
C21_FromZeroStrain == (EnergyEvaluated /\ material # FlatDB) => EnergyIsIntegral

(* ---------- C22: missing temperature data and the solver's plasticity context ---------- *)
\* an active Neuber or Glinka configuration with neither a temperature field nor a
\* default temperature
MissingTemperature(config) ==
    /\ ~config.none
    /\ config.is_active
    /\ config.method \in {"neuber", "glinka"}
    /\ config.temperature_field = "None"
    /\ config.default_temperature = <<>>
\* the last call was made with such a configuration and the engine's solver was
\* created with it
CalledWithoutTemperature ==
    /\ call.op \in {"create_solver", "run_batch_analysis", "run_single_node_analysis"}
    /\ MissingTemperature(call.config)
    /\ engine.plasticity_config = call.config
CreateSolverRaises ==
    (call.op = "create_solver" /\ MissingTemperature(call.config)) => pc = "raised"

\* C22: with an active Neuber or Glinka configuration that has neither a temperature
\* field nor a default temperature, create_solver raises, and no run_batch_analysis or
\* run_single_node_analysis with that configuration executes an analysis on a solver
\* whose plasticity context is absent.
C22_NoSilentDegrade ==
    /\ CreateSolverRaises
    /\ (CalledWithoutTemperature /\ pc = "analysed") => ~result.context.none

\* create_solver does raise
C22_CreateSolverRaises == CreateSolverRaises

(* ---------- C23: the Newton iterate stays positive ---------- *)
\* point i has a positive elastic stress and its loop has an iterate: the loop runs,
\* has left through break, or has stored its result
HasIterate(i) == FGt(Sigma_e(i), F0) /\ pts[i].st \in {"loop", "exit", "done"}
\* min(sigma_e, yield(T)), and 1e-6 in its place when it is not positive
FlooredStart(i) ==
    Let(FMin(Sigma_e(i), yield_of_T_njit(Temp(i), material.TEMP, material.SIG)),
        LAMBDA s : IF FGt(s, F0) THEN s ELSE ONE_E6)
IteratePositive(i) ==
    /\ FGt(pts[i].sigma, F0)
    /\ (pts[i].st = "loop" /\ pts[i].it = 0) => pts[i].sigma = FlooredStart(i)
    /\ pts[i].st = "done" => pts[i].sc = pts[i].sigma

BracketEvaluated == pc = "evaluated" /\ call.op = "bound_T_indices"
\* the indices lie in the table, in order and at most one apart (1..N_T here is
\* 0..N_T - 1 in the code), and the weight lies in [0, 1]
BracketInTable ==
    /\ 1 <= result.i /\ result.i <= result.j /\ result.j <= Len(material.TEMP)
    /\ result.j - result.i <= 1
    /\ FLe(F0, result.value) /\ FLe(result.value, F1)
\* a proper bracket encloses T and its weight is the position of T in it
BracketEnclosesT ==
    result.i < result.j =>
        /\ FLe(material.TEMP[result.i], call.T) /\ FLe(call.T, material.TEMP[result.j])
        /\ result.value = FDiv(FSub(call.T, material.TEMP[result.i]),
                               FSub(material.TEMP[result.j], material.TEMP[result.i]))
\* a blended value is (1 - w) * a + w * b of the values a, b of the quantity on the
\* rows of the bracket of T, with 0 <= w <= 1, and the row's value when i = j
BlendIsConvex ==
    Let(bound_T_indices_njit(call.T, material.TEMP), LAMBDA b :
        /\ FLe(F0, b[3]) /\ FLe(b[3], F1)
        /\ result.value = IF b[1] = b[2] THEN RowValue(b[1])
                          ELSE FAdd(FMul(FSub(F1, b[3]), RowValue(b[1])),
                                    FMul(b[3], RowValue(b[2]))))

\* C24: for every query temperature on a database with at least one row the bracket
\* lookup returns indices i <= j inside the table and at most one apart and a weight
\* w in [0, 1]; when i < j, T lies between the two temperatures and w is
\* (T - temperatures[i]) / (temperatures[j] - temperatures[i]); every blended value is
\* the convex combination of the two rows' values with that weight.
C24_BracketAndWeight ==
    /\ BracketEvaluated => (BracketInTable /\ BracketEnclosesT)
    /\ BlendEvaluated => BlendIsConvex

\* a temperature strictly inside the second interval of a three-row table
C24_Witness ==
    /\ BracketEvaluated
    /\ result.i = 2 /\ result.j = 3
    /\ FLt(F0, result.value) /\ FLt(result.value, F1)

(* ---------- C25: the plastic-strain increment below yield ---------- *)
\* step k (counted from 1) has been computed; k >= 2 is a step of the loop
StepDone(k) == k <= Len(ibg.epsp)
\* the elastic von Mises stresses of steps k - 1 and k are both at most yield(T_k)
BothBelowYield(k) == FLe(VonMises(k - 1), YieldOfStep(k)) /\ FLe(VonMises(k), YieldOfStep(k))
StrainKept(k) == ibg.epsp[k] = ibg.epsp[k - 1]

NonDecreasing(h) ==
    /\ h[1] = F0
    /\ \A k \in 2..Len(h) : FGe(h[k], h[k - 1]) /\ FGe(h[k - 1], F0)

\* C26: in every result of apply_ibg_correction, and at every step while it is
\* computed, the cumulative plastic strain starts at 0 and never decreases:
\* plastic_strain[0] = 0 and plastic_strain[k] >= plastic_strain[k-1] >= 0.
C26_PlasticStrainMonotone ==
    /\ IBGRunning => NonDecreasing(ibg.epsp)
    /\ (IBGRunning /\ pc = "done") => NonDecreasing(result.epsp)

\* a returned history that loads beyond yield and then unloads: the plastic strain
\* grows at the second step and stays at the third
C26_Witness ==
    /\ IBGRunning
    /\ pc = "done"
    /\ Steps = 3
    /\ FGt(result.epsp[2], F0)
    /\ FLt(VonMises(3), VonMises(2))
    /\ result.epsp[3] = result.epsp[2]

(* ---------- C27: the contraction factor ---------- *)
\* step k went through the corrected branch of the loop
Corrected(k) == StepDone(k) /\ ibg.corrected[k]
\* the von Mises stress of the corrected tensor is scale times that of the input
ScalesVonMises(k) ==
    Close(von_mises_from_voigt(ibg.sig_corr[k]), FMul(ibg.scale[k], VonMises(k)))
\* the corrected deviator is scale times the input deviator, component by component
ScalesDeviator(k) ==
    Let(<<deviator(ibg.sig_corr[k]), deviator(Input(k))>>, LAMBDA d :
        \A j \in 1..6 : Close(d[1][j], FMul(ibg.scale[k], d[2][j])))

\* C27: on a database with positive moduli, at every corrected step 0 < scale <= 1,
\* the von Mises stress of corrected[k] is scale times that of input[k] and never
\* above it, and the corrected deviator is scale (>= 0) times the input deviator.
C27_ContractionFactor ==
    IBGRunning =>
        \A k \in 2..Steps :
            Corrected(k) =>
                /\ FLt(F0, ibg.scale[k]) /\ FLe(ibg.scale[k], F1)
                /\ ScalesVonMises(k)
                /\ FLe(von_mises_from_voigt(ibg.sig_corr[k]), FAdd(VonMises(k), ROUNDING))
                /\ ScalesDeviator(k)

\* a corrected step scaled down by a factor strictly between 0 and 1 whose tensor has
\* normal and shear components
C27_Witness ==
    /\ IBGRunning
    /\ \E k \in 2..Steps :
          /\ Corrected(k)
          /\ FLt(ibg.scale[k], F1)
          /\ Input(k)[4] # F0
          /\ mean_stress(Input(k)) # F0

(* ---------- C28: steps whose deviatoric energy does not grow ---------- *)
\* dUe of step k: delta_Ue_tensor(sig_hist[k - 1], sig_hist[k], E(T_k))
EnergyIncrement(k) ==
    delta_Ue_tensor(Input(k - 1), Input(k),
                    E_of_T_njit(call.temperature_history.data[k], material.TEMP,
                                material.E_tab), POISSON_RATIO)
Unloading(k) == StepDone(k) /\ FLe(EnergyIncrement(k), F0)

\* the corrected stress of step k is its input stress, up to the rounding of
\* hyd + 1.0 * (sig - hyd)
StressKept(k) == \A j \in 1..6 : Close(ibg.sig_corr[k][j], Input(k)[j])

\* C28: at every step k >= 1 whose deviatoric energy increment is <= 0 the plastic
\* strain increment is 0, so the accumulated plastic strain is unchanged and the scale
\* is 1, and the corrected stress is the input stress of the step up to rounding,
\* whatever plastic strain has accumulated before.
C28_UnloadingIsElastic ==
    IBGRunning =>
        \A k \in 2..Steps :
            Unloading(k) => (StrainKept(k) /\ ibg.scale[k] = F1 /\ StressKept(k))

\* a step that unloads from above yield after plastic strain has accumulated and goes
\* through the corrected branch of the loop
C28_Witness ==
    /\ IBGRunning
    /\ \E k \in 2..Steps :
          /\ Unloading(k)
          /\ Corrected(k)
          /\ FGt(ibg.epsp[k - 1], F0)
          /\ FLt(VonMises(k), VonMises(k - 1))
          /\ StrainKept(k)

(* ---------- C29: the policy inside the tabulated range ---------- *)
OtherPolicy == 1 - call.use_plateau
\* the evaluated curve operator under policy p, on the same row and argument
UnderPolicy(p) ==
    CASE pc = "interpolated" ->
            interp_epsp_on_curve_njit(call.x, material.SIG[call.row],
                                      material.EPSP[call.row], p)
      [] pc = "integrated" ->
            plastic_energy_on_curve_njit(call.x, material.SIG[call.row],
                                         material.EPSP[call.row], p)
      [] OTHER ->
            invert_sigma_on_curve_njit(call.x, material.SIG[call.row],
                                       material.EPSP[call.row], p)
\* the last point of the axis the argument is looked up on
LastOfAxis ==
    IF pc = "stress_found" THEN material.EPSP[call.row][Len(material.EPSP[call.row])]
    ELSE material.SIG[call.row][Len(material.SIG[call.row])]
RowOperatorEvaluated == pc \in {"interpolated", "integrated", "stress_found"}
UpToLastPoint == FLe(call.x, LastOfAxis)

\* C29: on every curve row, plastic_strain_of_stress and plastic_energy_of_stress of
\* a stress up to the last stress point, and stress_of_plastic_strain of a strain up to
\* the last strain point, have the same value under clamp-to-plateau as under
\* linear-extrapolate.
C29_PolicyFreeInRange ==
    (RowOperatorEvaluated /\ UpToLastPoint) =>
        /\ result.value = UnderPolicy(call.use_plateau)
        /\ result.value = UnderPolicy(OtherPolicy)

\* the plastic strain of the last stress point of a row, evaluated under the plateau
\* policy, on a row where the two policies differ beyond that point
C29_Witness ==
    /\ pc = "interpolated"
    /\ call.use_plateau = 1
    /\ call.x = LastOfAxis
    /\ FGt(result.value, F0)
    /\ interp_epsp_on_curve_njit(FAdd(call.x, F1), material.SIG[call.row],
                                 material.EPSP[call.row], 0)
          # interp_epsp_on_curve_njit(FAdd(call.x, F1), material.SIG[call.row],
                                      material.EPSP[call.row], 1)

(* ---------- C30: the IBG result on a prefix of the history ---------- *)
\* apply_ibg_correction on the first M steps of the history of the call
OnFirstSteps(M) ==
    ibg_solver_tensor_core(SubSeq(call.stress_history.data, 1, M),
                           SubSeq(call.temperature_history.data, 1, M), material, Plateau)
PrefixOfResult(M) ==
    Let(OnFirstSteps(M), LAMBDA r :
        /\ r.sig_corr = SubSeq(result.sig_corr, 1, M)
        /\ r.epsp = SubSeq(result.epsp, 1, M))

\* C30: for every returned history of N steps and every 1 <= M <= N, the correction of
\* the first M steps alone is exactly the first M rows of the corrected history and of
\* the plastic-strain history: step k depends on steps 0..k only.
C30_CausalInTime ==
    (IBGRunning /\ pc = "done") => \A M \in 1..Steps : PrefixOfResult(M)

\* a returned three-step history that stays elastic up to its second step and
\* accumulates plastic strain at the third
C30_Witness ==
    /\ IBGRunning
    /\ pc = "done"
    /\ Steps = 3
    /\ FGt(VonMises(2), VonMises(1))
    /\ result.epsp[2] = F0
    /\ FGt(result.epsp[3], F0)
    /\ PrefixOfResult(2)
====
